---- MODULE Spec2Model ----
(***************************************************************************)
(* Model of the Telegram -> n8n video bot: the update processor            *)
(* (TelegramUpdateProcessor.handleUpdate), its template parser, the KV     *)
(* chat-state repository and the webhook entry point.                      *)
(*                                                                         *)
(* Strings are sequences of UTF-16 code units.  A code unit is written as  *)
(* a TLA+ string: an ASCII character stands for itself, a Persian letter   *)
(* is written by its name ("vav" is U+0648, "zwnj" is U+200C, ...).        *)
(* An optional value (a field that may be undefined) is a sequence of      *)
(* length at most one: <<>> is undefined, <<v>> is the value v.            *)
(***************************************************************************)
EXTENDS Integers, Sequences, FiniteSets, TLC

(***************************************************************************)
(* Optional values and JavaScript truthiness                               *)
(***************************************************************************)
None == <<>>

Some(v) == <<v>>

\* The element of a one-element set: The({F(x) : x \in {v}}) is F(v), with v
\* computed once, as a local const is.
The(S) == CHOOSE x \in S : TRUE

\* `x` used as a condition where x is an optional string: undefined and ""
\* are falsy.
TruthyStr(o) == o # <<>> /\ o[1] # <<>>

\* `x` used as a condition where x is an optional array: only undefined is
\* falsy, the empty array is truthy.
TruthyArr(o) == o # <<>>

\* a || b for optional strings
OrElse(a, b) == IF TruthyStr(a) THEN a ELSE b

(***************************************************************************)
(* Characters                                                              *)
(***************************************************************************)
LowerLetters ==
    <<"a","b","c","d","e","f","g","h","i","j","k","l","m",
      "n","o","p","q","r","s","t","u","v","w","x","y","z">>

UpperLetters ==
    <<"A","B","C","D","E","F","G","H","I","J","K","L","M",
      "N","O","P","Q","R","S","T","U","V","W","X","Y","Z">>

Digits == {"0","1","2","3","4","5","6","7","8","9"}

AsciiAlpha == {LowerLetters[i] : i \in 1..26} \cup {UpperLetters[i] : i \in 1..26}

\* The code units the regular expression class \s and String.trim know among
\* those the model uses.
WhiteSpace == {" ", "\t", "\n", "\r"}

LowerOf == [c \in {UpperLetters[i] : i \in 1..26} |->
               LowerLetters[CHOOSE i \in 1..26 : UpperLetters[i] = c]]

LowerChar(c) == IF c \in DOMAIN LowerOf THEN LowerOf[c] ELSE c

(***************************************************************************)
(* String primitives                                                       *)
(***************************************************************************)
toLowerCase(s) == [i \in 1..Len(s) |-> LowerChar(s[i])]

trim(s) ==
    IF \A i \in 1..Len(s) : s[i] \in WhiteSpace
    THEN <<>>
    ELSE LET a == CHOOSE i \in 1..Len(s) :
                      /\ s[i] \notin WhiteSpace
                      /\ \A j \in 1..(i-1) : s[j] \in WhiteSpace
             k == CHOOSE i \in 0..(Len(s) - 1) :
                      /\ s[Len(s) - i] \notin WhiteSpace
                      /\ \A j \in (Len(s) - i + 1)..Len(s) : s[j] \in WhiteSpace
         IN  SubSeq(s, a, Len(s) - k)

\* s.slice(0, n)
slice0(s, n) == SubSeq(s, 1, IF Len(s) < n THEN Len(s) ELSE n)

\* s.startsWith(p)
startsWith(s, p) == Len(s) >= Len(p) /\ SubSeq(s, 1, Len(p)) = p

\* Whether p occurs in s at index i (1-based)
OccursAt(s, p, i) == i >= 1 /\ i + Len(p) - 1 <= Len(s) /\ SubSeq(s, i, i + Len(p) - 1) = p

\* s.includes(p)
includes(s, p) == \E i \in 1..(Len(s) + 1) : OccursAt(s, p, i)

\* arr.join(sep) for an array of strings
RECURSIVE join(_, _)
join(arr, sep) ==
    IF arr = <<>> THEN <<>>
    ELSE IF Len(arr) = 1 THEN arr[1]
    ELSE join(SubSeq(arr, 1, Len(arr) \div 2), sep) \o sep
         \o join(SubSeq(arr, Len(arr) \div 2 + 1, Len(arr)), sep)

\* arr.filter(s => s.length > 0)
filterNonEmpty(arr) == SelectSeq(arr, LAMBDA x : x # <<>>)

\* s.replace(/^#/, "")
stripHash(s) == IF s # <<>> /\ s[1] = "#" THEN Tail(s) ELSE s

\* arr.map(s => s.trim())
mapTrim(arr) == [k \in 1..Len(arr) |-> trim(arr[k])]

\* arr.map(s => s.replace(/^#/, ""))
mapStripHash(arr) == [k \in 1..Len(arr) |-> stripHash(arr[k])]

\* The pieces of s between the cuts, where cuts is a set of <<first, last>>
\* index pairs of the separators found, left to right and without overlap.
SplitAtCuts(s, cuts) ==
    LET n      == Cardinality(cuts)
        Nth(k) == CHOOSE c \in cuts : Cardinality({d \in cuts : d[1] < c[1]}) = k - 1
        From(k) == IF k = 1 THEN 1 ELSE Nth(k-1)[2] + 1
        To(k)   == IF k = n + 1 THEN Len(s) ELSE Nth(k)[1] - 1
    IN  [k \in 1..(n+1) |-> SubSeq(s, From(k), To(k))]

\* s.split(",")
splitComma(s) == SplitAtCuts(s, {<<i, i>> : i \in {j \in 1..Len(s) : s[j] = ","}})

(***************************************************************************)
(* parseTags and limit (wizard path)                                       *)
(***************************************************************************)
TitleCap == 100

DescriptionCap == 5000

TagsCap == 30

\* function parseTags(input): split(","), trim, drop empties, strip one
\* leading '#', keep the first 30.
parseTags(input) ==
    The({ slice0(mapStripHash(kept), TagsCap) :
          kept \in { filterNonEmpty(trimmed) :
                     trimmed \in { mapTrim(pieces) : pieces \in {splitComma(input)} } } })

\* A limit that lets one code unit more through.
limitByOneMore(s, n) == IF Len(s) > n THEN slice0(s, n + 1) ELSE s

\* function limit(s, n)
limit(s, n) == IF Len(s) > n THEN slice0(s, n) ELSE s


(***************************************************************************)
(* Literal strings of the wizard                                           *)
(***************************************************************************)
StrStart == <<"/","s","t","a","r","t">>

StrSlashCancel == <<"/","c","a","n","c","e","l">>

StrCancel == <<"c","a","n","c","e","l">>

\* "لغو"
StrLaghv == <<"lam","ghain","vav">>

StrSlashConfirm == <<"/","c","o","n","f","i","r","m">>

StrConfirm == <<"c","o","n","f","i","r","m">>

\* "تایید"
StrTayid == <<"te","alef","ye","ye","dal">>

\* A cancel test that knows the word in lower case only.
isCancelTextExact(text) ==
    text = StrSlashCancel \/ text = StrCancel \/ text = StrLaghv

\* text === "/cancel" || text.toLowerCase() === "cancel" || text === "لغو"
isCancelText(text) ==
    text = StrSlashCancel \/ toLowerCase(text) = StrCancel \/ text = StrLaghv

\* text === "/confirm" || text.toLowerCase() === "confirm" || text === "تایید"
isConfirmText(text) ==
    text = StrSlashConfirm \/ toLowerCase(text) = StrConfirm \/ text = StrTayid

(***************************************************************************)
(* Conversation state (ChatState) and its stored form                      *)
(***************************************************************************)
WizardSteps ==
    <<"awaiting_video", "awaiting_title", "awaiting_description",
      "awaiting_tags", "awaiting_confirm">>

StepIndex(step) ==
    IF \E i \in 1..Len(WizardSteps) : WizardSteps[i] = step
    THEN CHOOSE i \in 1..Len(WizardSteps) : WizardSteps[i] = step
    ELSE 0

\* A ChatState object in memory: optional fields are optional values.
ChatState(chatId, step, video, title, description, tags, updatedAt) ==
    [chatId |-> chatId, step |-> step, video_file_id |-> video, title |-> title,
     description |-> description, tags |-> tags, updatedAt |-> updatedAt]

OptionalKeys == {"video_file_id", "title", "description", "tags"}

\* JSON.stringify(state): an object holding the keys whose value is defined.
\* The stored text is [valid |-> TRUE, obj |-> that object]; a stored text that
\* is not JSON is [valid |-> FALSE, ...].
stringify(state) ==
    LET keys == {"chatId", "step", "updatedAt"} \cup {k \in OptionalKeys : state[k] # None}
    IN  [valid |-> TRUE,
         obj   |-> [k \in keys |-> IF k \in OptionalKeys THEN state[k][1] ELSE state[k]]]

Garbage == [valid |-> FALSE, obj |-> [raw |-> "not json"]]

\* JSON.parse(json) as ChatState: reading a key the object lacks gives
\* undefined.
parseState(json) ==
    LET o == json.obj
        F(k) == IF k \in DOMAIN o THEN Some(o[k]) ELSE None
    IN  ChatState(o.chatId, o.step, F("video_file_id"), F("title"),
                  F("description"), F("tags"), o.updatedAt)

\* KvChatStateRepository.get: null (None) when the key is absent or the text
\* does not parse.
repoGet(store, chatId) ==
    IF store[chatId] = None THEN None
    ELSE IF ~ store[chatId][1].valid THEN None
    ELSE Some(parseState(store[chatId][1]))

\* A save that writes only while the key is present, so that it never
\* brings back a state another request has deleted.
repoSaveWhenPresent(store, state) ==
    IF store[state.chatId] = None THEN store
    ELSE [store EXCEPT ![state.chatId] = Some(stringify(state))]

\* KvChatStateRepository.save
repoSave(store, state) == [store EXCEPT ![state.chatId] = Some(stringify(state))]

\* A delete that answers and leaves the key in the namespace.
repoDeleteLeaving(store, chatId) == store

\* KvChatStateRepository.delete
repoDelete(store, chatId) == [store EXCEPT ![chatId] = None]

(***************************************************************************)
(* External calls.  A call record names the operation, the conversation,  *)
(* the argument and the answer the collaborator gave.                      *)
(***************************************************************************)
Call(op, chat, arg, res) == [op |-> op, chat |-> chat, arg |-> arg, res |-> res]

CallGet(chat) == Call("repo.get", chat, None, None)

CallSave(state) == Call("repo.save", state.chatId, state, None)

CallDelete(chat) == Call("repo.delete", chat, None, None)

CallSendMessage(chat, key) == Call("tg.sendMessage", chat, key, None)

CallSendChatAction(chat) == Call("tg.sendChatAction", chat, "typing", None)

CallSendVideo(payload, ok) == Call("n8n.sendVideo", payload.chat_id, payload, ok)

\* The state store after the store operations among `calls`, in order.
RECURSIVE ApplyCalls(_, _)
ApplyCalls(store, calls) ==
    IF calls = <<>> THEN store
    ELSE LET c == calls[1]
             next == IF c.op = "repo.save" THEN repoSave(store, c.arg)
                     ELSE IF c.op = "repo.delete" THEN repoDelete(store, c.chat)
                     ELSE store
         IN  ApplyCalls(next, Tail(calls))

(***************************************************************************)
(* The private wizard: handleUpdate, lines 170-290                         *)
(***************************************************************************)
\* A /start that opens the wizard one step too far.
StartStateAtTitle(chatId, t) == ChatState(chatId, "awaiting_title", None, None, None, None, t)

\* /start: { chatId, step: "awaiting_video", updatedAt: Date.now() }
StartState(chatId, t) == ChatState(chatId, "awaiting_video", None, None, None, None, t)

\* An implicit start that drops the video and waits for it again.
ImplicitStateAtVideo(chatId, fileId, t) ==
    ChatState(chatId, "awaiting_video", None, None, None, None, t)

\* video without a state: { chatId, step: "awaiting_title", video_file_id, updatedAt }
ImplicitState(chatId, fileId, t) ==
    ChatState(chatId, "awaiting_title", Some(fileId), None, None, None, t)

\* case "awaiting_video", the accepted branch
AcceptVideo(state, fileId, t) ==
    [state EXCEPT !.video_file_id = Some(fileId), !.step = "awaiting_title", !.updatedAt = t]

\* A title step that skips the description step.
AcceptTitleSkipping(state, text, t) ==
    [state EXCEPT !.title = Some(limit(text, TitleCap)), !.step = "awaiting_tags",
                  !.updatedAt = t]

\* case "awaiting_title", the accepted branch
AcceptTitle(state, text, t) ==
    [state EXCEPT !.title = Some(limit(text, TitleCap)), !.step = "awaiting_description",
                  !.updatedAt = t]

\* case "awaiting_description", the accepted branch
AcceptDescription(state, text, t) ==
    [state EXCEPT !.description = Some(limit(text, DescriptionCap)), !.step = "awaiting_tags",
                  !.updatedAt = t]

\* case "awaiting_tags", the accepted branch
AcceptTags(state, tags, t) ==
    [state EXCEPT !.tags = Some(tags), !.step = "awaiting_confirm", !.updatedAt = t]

\* !state.video_file_id || !state.title || !state.description || !state.tags
ConfirmIncomplete(state) ==
    \/ ~ TruthyStr(state.video_file_id)
    \/ ~ TruthyStr(state.title)
    \/ ~ TruthyStr(state.description)
    \/ ~ TruthyArr(state.tags)

\* The payload of the wizard's dispatch (lines 260-269); the fields copied
\* from the message (from, message_id, date) are left out.
WizardPayload(chatId, state) ==
    [chat_id |-> chatId, video |-> state.video_file_id[1], title |-> state.title[1],
     description |-> state.description[1], tags |-> state.tags[1],
     source_link |-> None, channel |-> None]

\* A confirm step that stamps the state before it deletes it.
ConfirmCallsResaving(chatId, state, text, e) ==
    IF isConfirmText(text) THEN
        IF ConfirmIncomplete(state)
        THEN <<CallSendMessage(chatId, "incomplete"), CallDelete(chatId)>>
        ELSE <<CallSendChatAction(chatId), CallSendVideo(WizardPayload(chatId, state), e.respOk)>>
             \o (IF e.respOk
                 THEN <<CallSendMessage(chatId, "dispatched"),
                        CallSave([state EXCEPT !.updatedAt = e.t]), CallDelete(chatId)>>
                 ELSE <<CallSendMessage(chatId, "dispatchFailed")>>)
    ELSE IF isCancelText(text)
    THEN <<CallDelete(chatId), CallSendMessage(chatId, "cancelledAtConfirm")>>
    ELSE <<CallSendMessage(chatId, "confirmHelp")>>

\* A confirm step that deletes the state before it dispatches.
ConfirmCallsDeletingFirst(chatId, state, text, e) ==
    IF isConfirmText(text) THEN
        IF ConfirmIncomplete(state)
        THEN <<CallSendMessage(chatId, "incomplete"), CallDelete(chatId)>>
        ELSE <<CallSendChatAction(chatId), CallDelete(chatId),
               CallSendVideo(WizardPayload(chatId, state), e.respOk)>>
             \o (IF e.respOk
                 THEN <<CallSendMessage(chatId, "dispatched")>>
                 ELSE <<CallSendMessage(chatId, "dispatchFailed")>>)
    ELSE IF isCancelText(text)
    THEN <<CallDelete(chatId), CallSendMessage(chatId, "cancelledAtConfirm")>>
    ELSE <<CallSendMessage(chatId, "confirmHelp")>>

\* A confirm step that deletes the state whatever the workflow answers.
ConfirmCallsForgetting(chatId, state, text, e) ==
    IF isConfirmText(text) THEN
        IF ConfirmIncomplete(state)
        THEN <<CallSendMessage(chatId, "incomplete"), CallDelete(chatId)>>
        ELSE <<CallSendChatAction(chatId), CallSendVideo(WizardPayload(chatId, state), e.respOk)>>
             \o (IF e.respOk
                 THEN <<CallSendMessage(chatId, "dispatched"), CallDelete(chatId)>>
                 ELSE <<CallSendMessage(chatId, "dispatchFailed"), CallDelete(chatId)>>)
    ELSE IF isCancelText(text)
    THEN <<CallDelete(chatId), CallSendMessage(chatId, "cancelledAtConfirm")>>
    ELSE <<CallSendMessage(chatId, "confirmHelp")>>

\* A confirm step that keeps the state whatever the workflow answers.
ConfirmCallsKeeping(chatId, state, text, e) ==
    IF isConfirmText(text) THEN
        IF ConfirmIncomplete(state)
        THEN <<CallSendMessage(chatId, "incomplete"), CallDelete(chatId)>>
        ELSE <<CallSendChatAction(chatId), CallSendVideo(WizardPayload(chatId, state), e.respOk)>>
             \o (IF e.respOk
                 THEN <<CallSendMessage(chatId, "dispatched")>>
                 ELSE <<CallSendMessage(chatId, "dispatchFailed")>>)
    ELSE IF isCancelText(text)
    THEN <<CallDelete(chatId), CallSendMessage(chatId, "cancelledAtConfirm")>>
    ELSE <<CallSendMessage(chatId, "confirmHelp")>>

\* case "awaiting_confirm"
ConfirmCalls(chatId, state, text, e) ==
    IF isConfirmText(text) THEN
        IF ConfirmIncomplete(state)
        THEN <<CallSendMessage(chatId, "incomplete"), CallDelete(chatId)>>
        ELSE <<CallSendChatAction(chatId), CallSendVideo(WizardPayload(chatId, state), e.respOk)>>
             \o (IF e.respOk
                 THEN <<CallSendMessage(chatId, "dispatched"), CallDelete(chatId)>>
                 ELSE <<CallSendMessage(chatId, "dispatchFailed")>>)
    ELSE IF isCancelText(text)
    THEN <<CallDelete(chatId), CallSendMessage(chatId, "cancelledAtConfirm")>>
    ELSE <<CallSendMessage(chatId, "confirmHelp")>>

\* A tags step that stamps the state when it rejects the text.
TagsCallsTouching(chatId, state, tags, e) ==
    IF Len(tags) = 0
    THEN <<CallSave([state EXCEPT !.updatedAt = e.t]), CallSendMessage(chatId, "needTag")>>
    ELSE <<CallSave(AcceptTags(state, tags, e.t)),
           CallSendMessage(chatId, "confirmSummary")>>

\* case "awaiting_tags" with a non-empty text, tags = parseTags(text)
TagsCalls(chatId, state, tags, e) ==
    IF Len(tags) = 0
    THEN <<CallSendMessage(chatId, "needTag")>>
    ELSE <<CallSave(AcceptTags(state, tags, e.t)),
           CallSendMessage(chatId, "confirmSummary")>>

\* switch (state.step), lines 198-290
StepCalls(chatId, state, msg, text, e) ==
    CASE state.step = "awaiting_video" ->
            IF TruthyStr(msg.video)
            THEN <<CallSave(AcceptVideo(state, msg.video[1], e.t)),
                   CallSendMessage(chatId, "askTitle")>>
            ELSE <<CallSendMessage(chatId, "needVideo")>>
      [] state.step = "awaiting_title" ->
            IF text # <<>>
            THEN <<CallSave(AcceptTitle(state, text, e.t)),
                   CallSendMessage(chatId, "askDescription")>>
            ELSE <<CallSendMessage(chatId, "badTitle")>>
      [] state.step = "awaiting_description" ->
            IF text # <<>>
            THEN <<CallSave(AcceptDescription(state, text, e.t)),
                   CallSendMessage(chatId, "askTags")>>
            ELSE <<CallSendMessage(chatId, "badDescription")>>
      [] state.step = "awaiting_tags" ->
            IF text # <<>>
            THEN The({ TagsCalls(chatId, state, tags, e) : tags \in {parseTags(text)} })
            ELSE <<CallSendMessage(chatId, "badTags")>>
      [] state.step = "awaiting_confirm" -> ConfirmCalls(chatId, state, text, e)
      [] OTHER ->
            <<CallDelete(chatId), CallSendMessage(chatId, "unknownState")>>

\* Lines 170-290: commands, state load, implicit start, step switch; text is
\* the trimmed msg.text and state what repo.get answers for the conversation.
CommandCalls(chatId, text, state, msg, e) ==
    IF text = StrStart
    THEN <<CallDelete(chatId), CallSave(StartState(chatId, e.t)),
           CallSendMessage(chatId, "welcome")>>
    ELSE IF isCancelText(text)
    THEN <<CallDelete(chatId), CallSendMessage(chatId, "cancelled")>>
    ELSE <<CallGet(chatId)>> \o
         (IF state = None /\ msg.video # None
          THEN <<CallSave(ImplicitState(chatId, msg.video[1], e.t)),
                 CallSendMessage(chatId, "askTitle")>>
          ELSE IF state = None
          THEN <<CallSendMessage(chatId, "startFirst")>>
          ELSE StepCalls(chatId, state[1], msg, text, e))

WizardCalls(store, msg, e) ==
    The({ CommandCalls(msg.chat_id, text, state, msg, e) :
          text \in {trim(msg.text)}, state \in {repoGet(store, msg.chat_id)} })

(***************************************************************************)
(* Template parser: parseGroupTemplate, splitTags, isUrl                   *)
(***************************************************************************)
\* Header words: "آپلود", "کانال", "عنوان", "توضیح", "تگ", "ها"
HdrUpload == <<"alefmadda","pe","lam","vav","dal">>

HdrChannel == <<"kaf","alef","nun","alef","lam">>

HdrTitle == <<"ain","nun","vav","alef","nun">>

HdrDesc == <<"te","vav","zad","ye","hah">>

HdrTag == <<"te","gaf">>

HdrHa == <<"heh","alef">>

\* text.replace(new RegExp("@" + escapeRegExp(botUsername), "ig"), ""):
\* every occurrence of p in s, compared case-insensitively, left to right.
RECURSIVE removeAllIgnoreCase(_, _)
removeAllIgnoreCase(s, p) ==
    LET ls   == toLowerCase(s)
        lp   == toLowerCase(p)
        hits == {i \in 1..Len(s) : OccursAt(ls, lp, i)}
    IN  IF p = <<>> \/ hits = {} THEN s
        ELSE LET i == CHOOSE h \in hits : \A g \in hits : h <= g
             IN  SubSeq(s, 1, i - 1)
                 \o removeAllIgnoreCase(SubSeq(s, i + Len(p), Len(s)), p)

\* s.replace(/[:：]/g, "")
removeColons(s) == SelectSeq(s, LAMBDA c : c \notin {":", "fwcolon"})

\* text.split(/\r?\n/)
splitLines(s) ==
    SplitAtCuts(s, {<<IF i > 1 /\ s[i-1] = "\r" THEN i - 1 ELSE i, i>> :
                        i \in {j \in 1..Len(s) : s[j] = "\n"}})

\* The closure isHeader of parseGroupTemplate; "none" stands for null.
headerOf(t) ==
    LET mid == SubSeq(t, Len(HdrTag) + 1, Len(t) - Len(HdrHa))
    IN  IF t = HdrUpload THEN "upload"
        ELSE IF t = HdrChannel THEN "channel"
        ELSE IF t = HdrTitle THEN "title"
        ELSE IF t = HdrDesc THEN "desc"
        ELSE IF \/ /\ Len(t) >= Len(HdrTag) + Len(HdrHa)
                   /\ startsWith(t, HdrTag)
                   /\ SubSeq(t, Len(t) - Len(HdrHa) + 1, Len(t)) = HdrHa
                   /\ \/ \A i \in 1..Len(mid) : mid[i] \in WhiteSpace
                      \/ mid = <<"zwnj">>
                \/ t = HdrTag
        THEN "tags"
        ELSE "none"

isHeader(l) ==
    The({ headerOf(t) : t \in { trim(bare) : bare \in {removeColons(l)} } })

\* Schemes the URL parser calls special and that need a host.
SpecialSchemes ==
    { <<"h","t","t","p">>, <<"h","t","t","p","s">>, <<"f","t","p">>,
      <<"w","s">>, <<"w","s","s">> }

\* function isUrl(s): whether new URL(s) succeeds.  Without a base the text
\* needs a scheme (a letter, then letters, digits, '+', '-', '.', up to the
\* first ':'); a special scheme also needs a non-empty host without a blank.
isUrl(s) ==
    LET colons == {i \in 1..Len(s) : s[i] = ":"}
        c      == CHOOSE i \in colons : \A j \in colons : i <= j
        scheme == toLowerCase(SubSeq(s, 1, c - 1))
        rest   == SubSeq(s, c + 1, Len(s))
        slashes == {i \in 1..Len(rest) : \A j \in 1..i : rest[j] \in {"/", "\\"}}
        host   == SubSeq(rest, Cardinality(slashes) + 1, Len(rest))
    IN  /\ colons # {}
        /\ c > 1
        /\ s[1] \in AsciiAlpha
        /\ \A i \in 2..(c-1) : s[i] \in AsciiAlpha \cup Digits \cup {"+", "-", "."}
        /\ scheme \in SpecialSchemes =>
              /\ host # <<>>
              /\ host[1] \notin {"/", "\\", "?", "#", ":"}
              /\ \A i \in 1..Len(host) : host[i] \notin WhiteSpace

\* Where a separator of /[,،\n]+|\s*و\s*|\s*and\s*/i that starts at p ends
\* (0 when none starts at p).
wsRunEnd(s, p) ==
    \* the index after the whitespace run that starts at p
    IF \A i \in p..Len(s) : s[i] \in WhiteSpace THEN Len(s) + 1
    ELSE CHOOSE q \in p..Len(s) :
             s[q] \notin WhiteSpace /\ \A i \in p..(q-1) : s[i] \in WhiteSpace

sepEndAt(s, p) ==
    LET cls == {",", "pcomma", "\n"}
        q   == wsRunEnd(s, p)
    IN  IF s[p] \in cls
        THEN (IF \A i \in p..Len(s) : s[i] \in cls THEN Len(s)
              ELSE (CHOOSE e \in p..Len(s) :
                        s[e] \notin cls /\ \A i \in p..(e-1) : s[i] \in cls) - 1)
        ELSE IF q <= Len(s) /\ s[q] = "vav"
        THEN wsRunEnd(s, q + 1) - 1
        ELSE IF q + 2 <= Len(s) /\ toLowerCase(SubSeq(s, q, q + 2)) = <<"a","n","d">>
        THEN wsRunEnd(s, q + 3) - 1
        ELSE 0

\* The scan of s from index p for separators that start at or before hi:
\* the separators found, and the index at which the scan goes on.  A
\* separator is looked for at p; the scan goes on behind it, or at p + 1
\* when none starts at p.
RECURSIVE sepScan(_, _, _)
sepScan(s, p, hi) ==
    IF p > hi THEN [cuts |-> {}, at |-> p]
    ELSE IF p = hi
    THEN The({ IF e = 0 THEN [cuts |-> {}, at |-> p + 1]
               ELSE [cuts |-> {<<p, e>>}, at |-> e + 1] : e \in {sepEndAt(s, p)} })
    ELSE The({ The({ [cuts |-> l.cuts \cup r.cuts, at |-> r.at] :
                     r \in {sepScan(s, l.at, hi)} }) :
               l \in {sepScan(s, p, (p + hi) \div 2)} })

\* The separators found in s from index p on, left to right.
sepCuts(s, p) == sepScan(s, p, Len(s)).cuts

\* function splitTags(s)
splitTags(s) ==
    IF s = <<>> THEN <<>>
    ELSE The({ mapStripHash(kept) :
               kept \in { filterNonEmpty(trimmed) :
                          trimmed \in { mapTrim(pieces) :
                                        pieces \in { SplitAtCuts(s, cuts) :
                                                     cuts \in {sepCuts(s, 1)} } } } })

\* The loop of parseGroupTemplate over the lines, from the accumulator acc.
RECURSIVE parseLines(_, _)
parseLine(acc, l, h) ==
    IF h # "none" THEN [acc EXCEPT !.section = h]
    ELSE CASE acc.section = "upload" ->
                 IF ~ TruthyStr(acc.source_link) /\ isUrl(l)
                 THEN [acc EXCEPT !.source_link = Some(l)]
                 ELSE acc
           [] acc.section = "channel" ->
                 [acc EXCEPT !.channel = Append(@, l)]
           [] acc.section = "title" ->
                 IF ~ TruthyStr(acc.title)
                 THEN [acc EXCEPT !.title = Some(l)]
                 ELSE acc
           [] acc.section = "desc" ->
                 [acc EXCEPT !.desc = Append(@, l)]
           [] acc.section = "tags" ->
                 [acc EXCEPT !.tagsRaw = Append(@, l)]
           [] OTHER -> acc

parseLines(lines, acc) ==
    IF lines = <<>> THEN acc
    ELSE IF Len(lines) = 1
    THEN The({ parseLine(acc, lines[1], h) : h \in {isHeader(lines[1])} })
    ELSE The({ parseLines(SubSeq(lines, Len(lines) \div 2 + 1, Len(lines)), next) :
               next \in { parseLines(SubSeq(lines, 1, Len(lines) \div 2), acc) } })

\* "" || undefined
NonEmptyOrNone(s) == IF s = <<>> THEN None ELSE Some(s)

\* The text without the bot's handle (lines 359-363).
stripHandle(input, botUsername) ==
    IF TruthyStr(botUsername)
    THEN removeAllIgnoreCase(input, <<"@">> \o botUsername[1])
    ELSE input

\* The trimmed, non-empty lines of the text (line 364).
templateLines(text) ==
    The({ filterNonEmpty(trimmed) :
          trimmed \in { mapTrim(raw) : raw \in {splitLines(text)} } })

\* The accumulator before the first line.
EmptyAcc ==
    [section |-> "none", source_link |-> None, channel |-> <<>>,
     title |-> None, desc |-> <<>>, tagsRaw |-> <<>>]

\* The result object (lines 408-415) from what the loop collected and the
\* tag list and description it yields.
templateResult(acc, tags, description) ==
    [source_link |-> acc.source_link,
     channel     |-> NonEmptyOrNone(join(acc.channel, <<" ">>)),
     title       |-> IF acc.title = None THEN None
                     ELSE Some(slice0(acc.title[1], TitleCap)),
     description |-> NonEmptyOrNone(slice0(description, DescriptionCap)),
     tags        |-> IF Len(tags) > 0 THEN Some(slice0(tags, TagsCap)) ELSE None]

templateOf(acc) ==
    The({ templateResult(acc, tags, description) :
          tags \in { splitTags(raw) : raw \in {join(acc.tagsRaw, <<" ">>)} },
          description \in {join(acc.desc, <<"\n">>)} })

\* At least one of title, description, tags, or null (lines 416-417).
nullIfEmpty(result) ==
    IF /\ ~ TruthyStr(result.title)
       /\ ~ TruthyStr(result.description)
       /\ (result.tags = None \/ Len(result.tags[1]) = 0)
    THEN None
    ELSE Some(result)

\* function parseGroupTemplate(input, botUsername); None stands for null.
parseGroupTemplate(input, botUsername) ==
    The({ nullIfEmpty(result) :
          result \in { templateOf(acc) :
                       acc \in { parseLines(lines, EmptyAcc) :
                                 lines \in { templateLines(text) :
                                             text \in {stripHandle(input, botUsername)} } } } })

(***************************************************************************)
(* Messages (TgMessage).  text and caption are strings, "" when absent;    *)
(* video is the optional file_id of msg.video; document is an optional     *)
(* [file_id, mime_type]; reply_to_message is an optional [video, document].*)
(***************************************************************************)
Msg(chatId, chatType, text, caption, video, document, entities, captionEntities, reply) ==
    [chat_id |-> chatId, chat_type |-> chatType, text |-> text, caption |-> caption,
     video |-> video, document |-> document, entities |-> entities,
     caption_entities |-> captionEntities, reply_to_message |-> reply]

Entity(type, offset, length, userId) ==
    [type |-> type, offset |-> offset, length |-> length, user_id |-> userId]

\* `x` used as a condition where x is an optional number
TruthyNum(o) == o # <<>> /\ o[1] # 0

\* text.substring(a, b) with 0 <= a, 0 <= b
substring(s, a, b) ==
    LET lo == IF a < b THEN a ELSE b
        hi == IF a < b THEN b ELSE a
    IN  SubSeq(s, (IF lo > Len(s) THEN Len(s) ELSE lo) + 1, IF hi > Len(s) THEN Len(s) ELSE hi)

\* isMentioned(msg, botUsername, botId), lines 315-330
isMentioned(msg, botUsername, botId) ==
    LET entities == msg.entities \o msg.caption_entities
        text     == IF msg.text # <<>> THEN msg.text ELSE msg.caption
        handle   == toLowerCase(<<"@">> \o botUsername[1])
        Hit(e)   ==
            \/ /\ e.type = "text_mention"
               /\ TruthyNum(e.user_id)
               /\ TruthyNum(botId)
               /\ e.user_id[1] = botId[1]
            \/ /\ e.type = "mention"
               /\ TruthyStr(botUsername)
               /\ text # <<>>
               /\ toLowerCase(substring(text, e.offset, e.offset + e.length)) = handle
    IN  IF ~ TruthyStr(botUsername) /\ ~ TruthyNum(botId) THEN FALSE
        ELSE IF \E i \in 1..Len(entities) : Hit(entities[i]) THEN TRUE
        ELSE IF TruthyStr(botUsername) /\ text # <<>>
        THEN includes(toLowerCase(text), handle)
        ELSE FALSE

\* The processor's fields after construction (worker.ts line 30)
NewProcessor == [botUsername |-> None, botId |-> None]

\* ensureBotIdentity needs to ask: !(this.botUsername && this.botId)
needsIdentity(proc) == ~ (TruthyStr(proc.botUsername) /\ TruthyNum(proc.botId))

\* this.botUsername = me?.username || undefined; this.botId = me?.id || undefined
identityFrom(me) ==
    [botUsername |-> IF TruthyStr(me.username) THEN me.username ELSE None,
     botId       |-> IF TruthyNum(me.id) THEN me.id ELSE None]

CallGetMe(me) == Call("tg.getMe", 0, None, me)

\* TelegramApi.getMe: what it returns for the platform's response.  A
\* response is a text that is not JSON, or a JSON object with an optional
\* result: json?.result ?? {} when it parses, { id: 0, is_bot: true } when
\* it does not.
getMe(resp) ==
    IF resp.kind = "notJson" THEN [id |-> Some(0), username |-> None]
    ELSE IF resp.result = None THEN [id |-> None, username |-> None]
    ELSE resp.result[1]

CallGetFile(chat, fileId, ok) == Call("tg.getFile", chat, fileId, ok)

\* x?.video?.file_id || (x?.document?.mime_type?.startsWith("video/") ? x?.document?.file_id : undefined)
\* for x an optional [video, document]
StrVideoSlash == <<"v","i","d","e","o","/">>

videoIdOf(video, document) ==
    IF TruthyStr(video) THEN video
    ELSE IF /\ document # None
            /\ document[1].mime_type # None
            /\ startsWith(document[1].mime_type[1], StrVideoSlash)
    THEN Some(document[1].file_id)
    ELSE None

repliedVideoId(msg) ==
    IF msg.reply_to_message = None THEN None
    ELSE videoIdOf(msg.reply_to_message[1].video, msg.reply_to_message[1].document)

currentVideoId(msg) == videoIdOf(msg.video, msg.document)

\* A choice that falls back to the message's own video with a source link too.
chooseVideoFileIdAnySource(parsed, replied, current) == OrElse(replied, current)

\* parsed.source_link ? repliedVideoId : (repliedVideoId || currentVideoId)
chooseVideoFileId(parsed, replied, current) ==
    IF TruthyStr(parsed.source_link) THEN replied ELSE OrElse(replied, current)

\* parsed && parsed.title && parsed.description && parsed.tags && parsed.tags.length > 0
templateComplete(parsed) ==
    /\ parsed # None
    /\ TruthyStr(parsed[1].title)
    /\ TruthyStr(parsed[1].description)
    /\ TruthyArr(parsed[1].tags)
    /\ Len(parsed[1].tags[1]) > 0

\* The payload of the group dispatch (lines 120-135); the fields copied from
\* the message and file_path, file_size are left out.
GroupPayload(chatId, parsed, fileId) ==
    [chat_id |-> chatId, video |-> fileId, title |-> parsed.title[1],
     description |-> parsed.description[1], tags |-> parsed.tags[1],
     source_link |-> parsed.source_link, channel |-> parsed.channel]

\* A dispatch that goes on when the file check did not report ok.
DispatchCallsUnchecked(chatId, parsed, fileId, e) ==
    <<CallSendChatAction(chatId)>> \o
    (IF ~ TruthyStr(fileId)
     THEN <<CallSendMessage(chatId,
               IF TruthyStr(parsed.source_link) THEN "replyRequired"
               ELSE "attachRequired")>>
     ELSE <<CallGetFile(chatId, fileId[1], e.fileOk)>> \o
          (IF trim(fileId[1]) = <<>>
           THEN <<CallSendMessage(chatId, "emptyFileId")>>
           ELSE <<CallSendVideo(GroupPayload(chatId, parsed, fileId[1]), e.respOk),
                  CallSendMessage(chatId,
                      IF e.respOk THEN "groupDispatched" ELSE "groupDispatchFailed")>>))

\* A dispatch that clears the conversation's stored state on success, as the
\* wizard does.
DispatchCallsClearing(chatId, parsed, fileId, e) ==
    <<CallSendChatAction(chatId)>> \o
    (IF ~ TruthyStr(fileId)
     THEN <<CallSendMessage(chatId,
               IF TruthyStr(parsed.source_link) THEN "replyRequired"
               ELSE "attachRequired")>>
     ELSE <<CallGetFile(chatId, fileId[1], e.fileOk)>> \o
          (IF ~ e.fileOk THEN <<CallSendMessage(chatId, "fileError")>>
           ELSE IF trim(fileId[1]) = <<>>
           THEN <<CallSendMessage(chatId, "emptyFileId")>>
           ELSE <<CallSendVideo(GroupPayload(chatId, parsed, fileId[1]), e.respOk),
                  CallSendMessage(chatId,
                      IF e.respOk THEN "groupDispatched" ELSE "groupDispatchFailed")>>
                \o (IF e.respOk THEN <<CallDelete(chatId)>> ELSE <<>>)))

\* Lines 79-154: the template is complete; fileId is the chosen videoFileId.
DispatchCalls(chatId, parsed, fileId, e) ==
    <<CallSendChatAction(chatId)>> \o
    (IF ~ TruthyStr(fileId)
     THEN <<CallSendMessage(chatId,
               IF TruthyStr(parsed.source_link) THEN "replyRequired"
               ELSE "attachRequired")>>
     ELSE <<CallGetFile(chatId, fileId[1], e.fileOk)>> \o
          (IF ~ e.fileOk THEN <<CallSendMessage(chatId, "fileError")>>
           ELSE IF trim(fileId[1]) = <<>>
           THEN <<CallSendMessage(chatId, "emptyFileId")>>
           ELSE <<CallSendVideo(GroupPayload(chatId, parsed, fileId[1]), e.respOk),
                  CallSendMessage(chatId,
                      IF e.respOk THEN "groupDispatched" ELSE "groupDispatchFailed")>>))

\* Lines 77-159: parsed = parseGroupTemplate(content, this.botUsername)
ParsedCalls(msg, parsed, e) ==
    IF ~ templateComplete(parsed)
    THEN <<CallSendMessage(msg.chat_id, "guidance")>>
    ELSE The({ DispatchCalls(msg.chat_id, parsed[1], fileId, e) :
               fileId \in { chooseVideoFileId(parsed[1], replied, current) :
                            replied \in {repliedVideoId(msg)},
                            current \in {currentVideoId(msg)} } })

\* content = text || caption
contentOf(text, caption) == IF text # <<>> THEN text ELSE caption

\* Lines 76-167, after the mention check passed.
ContentCalls(msg, content, identity, e) ==
    IF content = <<>> THEN <<CallSendMessage(msg.chat_id, "unreadable")>>
    ELSE The({ ParsedCalls(msg, parsed, e) :
               parsed \in {parseGroupTemplate(content, identity.botUsername)} })

TemplateCalls(msg, identity, e) ==
    The({ ContentCalls(msg, content, identity, e) :
          content \in { contentOf(text, caption) :
                        text \in {trim(msg.text)}, caption \in {trim(msg.caption)} } })

\* chatType === "group" || chatType === "supergroup"
isGroupChat(chatType) == chatType = "group" \/ chatType = "supergroup"

\* A mention check that answers the messages that do not mention the bot.
MentionCallsAnswering(msg, identity, e) ==
    IF isMentioned(msg, identity.botUsername, identity.botId)
    THEN TemplateCalls(msg, identity, e)
    ELSE <<CallSendMessage(msg.chat_id, "guidance")>>

\* Lines 69-168 for a processor whose identity is known or was just asked.
MentionCalls(msg, identity, e) ==
    IF isMentioned(msg, identity.botUsername, identity.botId)
    THEN TemplateCalls(msg, identity, e)
    ELSE <<>>

\* Lines 66-168: the group path of a processor whose fields are proc.
GroupCalls(proc, msg, e) ==
    IF needsIdentity(proc)
    THEN <<CallGetMe(e.me)>>
         \o The({ MentionCalls(msg, identity, e) : identity \in {identityFrom(e.me)} })
    ELSE MentionCalls(msg, proc, e)

\* handleUpdate(update): the calls it issues when none of them throws.
\* update is an optional message.
handleUpdateCalls(store, proc, update, e) ==
    IF update = None THEN <<>>
    ELSE IF isGroupChat(update[1].chat_type) THEN GroupCalls(proc, update[1], e)
    ELSE WizardCalls(store, update[1], e)

(***************************************************************************)
(* The webhook (worker.ts, fetch): a processor is built for the request    *)
(* and handleUpdate runs to its end, or to the first call that throws (a   *)
(* rejected fetch or a failing KV operation), which the handler catches    *)
(* and answers with status 500.  e.failAt = k > 0 makes the k-th call      *)
(* throw; a call that throws has no effect.                                *)
(***************************************************************************)
\* The request's result when the calls done returned.
Finish(store, done, outcome) ==
    [calls   |-> done,
     outcome |-> outcome,
     store   |-> ApplyCalls(store, done),
     proc    |-> IF done # <<>> /\ done[1].op = "tg.getMe"
                 THEN identityFrom(done[1].res) ELSE NewProcessor]

\* The request's result when its calls are plan and the failAt-th throws.
RunPlan(store, plan, failAt) ==
    IF failAt \in 1..Len(plan)
    THEN Finish(store, SubSeq(plan, 1, failAt - 1), "threw")
    ELSE Finish(store, plan, "returned")

Run(store, update, e) ==
    The({ RunPlan(store, plan, e.failAt) :
          plan \in {handleUpdateCalls(store, NewProcessor, update, e)} })

(***************************************************************************)
(* State                                                                   *)
(***************************************************************************)
VARIABLES
    kv,       \* the KV namespace: conversation id -> optional stored text
    proc,     \* the fields of the processor built for the last request
    before,   \* kv as the last request found it
    upd,      \* the update of the last request (an optional message)
    calls,    \* the calls the last request issued that returned, in order
    outcome,  \* "returned" or "threw" for the last request; "none", "expired"
    inflight, \* the requests that overlap in time, in the order of arrival
    trace     \* the calls those requests have completed, in the order of completion

vars == <<kv, proc, before, upd, calls, outcome, inflight, trace>>

(***************************************************************************)
(* Bounds and input domains                                                *)
(***************************************************************************)
\* Date.now() answers a value of 0..MaxTime
MaxTime == 1

Times == 0..MaxTime

ChatIds == {1}

V1 == <<"v","1">>

V2 == <<"v","2">>

TextHi == <<" ","h","i","\n">>

TextTags == <<"a",","," ","#","b">>

WizardTexts ==
    { StrStart, StrSlashCancel, <<"C","a","n","C","e","l">>, StrLaghv,
      StrSlashConfirm, <<"C","o","n","f","i","r","m">>, StrTayid,
      <<>>, <<" ">>, TextHi, <<",">>, TextTags }

VideoMime == Some(<<"v","i","d","e","o","/","m","p","4">>)

PdfMime == Some(<<"a","p","p","/","p","d","f">>)

Doc(fileId, mime) == Some([file_id |-> fileId, mime_type |-> mime])

PrivateMsg(chatId, text, video, document) ==
    Msg(chatId, "private", text, <<>>, video, document, <<>>, <<>>, None)

\* Updates of the wizard specification: text messages, video messages (one
\* with an empty file_id, one with a text beside the video), a document
\* message, and an update without a message.
WizardUpdates ==
    {None}
    \cup {Some(PrivateMsg(c, t, None, None)) : c \in ChatIds, t \in WizardTexts}
    \cup {Some(PrivateMsg(c, <<>>, Some(v), None)) : c \in ChatIds, v \in {V1, <<>>}}
    \cup {Some(PrivateMsg(c, TextHi, Some(V1), None)) : c \in ChatIds}
    \cup {Some(PrivateMsg(c, <<>>, None, Doc(V1, VideoMime))) : c \in ChatIds}

\* Long texts: one code unit more than a cap allows, and one tag more.
Rep(c, n) == [i \in 1..n |-> c]

TextLongTitle == Rep("x", TitleCap + 1)

TextLongDescription == Rep("y", DescriptionCap + 1)

TextManyTags == join([i \in 1..(TagsCap + 1) |-> <<"g">>], <<",">>)

\* Updates of the caps specification: a wizard run with short or long texts.
CapsUpdates ==
    {Some(PrivateMsg(c, t, None, None)) :
        c \in ChatIds,
        t \in {StrStart, StrSlashConfirm, TextHi, TextLongTitle, TextLongDescription,
               TextManyTags}}
    \cup {Some(PrivateMsg(c, <<>>, Some(V1), None)) : c \in ChatIds}

\* Group messages.  The bot's handle is "bot"; the templates write it "@Bot".
BotUser == [id |-> 7, username |-> <<"b","o","t">>]

BotName == BotUser.username

BotId == BotUser.id

AtBot == <<"@","B","o","t">>

NL == <<"\n">>

Url == <<"h","t","t","p","s",":","/","/","t",".","m","e","/","1">>

TplBody == HdrTitle \o <<":">> \o NL \o <<"T">> \o NL \o HdrDesc \o <<":">> \o NL \o <<"D">> \o NL

TplTags == HdrTag \o <<" ">> \o HdrHa \o <<":">> \o NL \o TextTags

TplNoLink == AtBot \o NL \o TplBody \o TplTags

TplLink == AtBot \o NL \o HdrUpload \o NL \o Url \o NL \o TplBody \o TplTags

TplNoTags == AtBot \o NL \o TplBody

GroupTypes == {"group", "supergroup"}

Reply(video, document) == Some([video |-> video, document |-> document])

\* Messages that mention the bot or not: plain and command texts, a bare
\* handle, no text, with or without a text_mention entity of the bot, and a
\* video whose caption is a template.
MentionUpdates ==
    {Some(Msg(c, "group", t, <<>>, None, None, en, <<>>, None)) :
        c \in ChatIds,
        t \in {<<"h","i">>, StrStart, StrSlashCancel, AtBot, <<>>},
        en \in {<<>>, <<Entity("text_mention", 0, 0, Some(BotId))>>}}
    \cup {Some(Msg(c, "supergroup", StrStart, <<>>, None, None, <<>>, <<>>, None)) :
             c \in ChatIds}

\* Messages with entities: the handle of another user that starts with the
\* bot's, with no entity, with its mention entity, and with a text_mention
\* entity of another user; a mention entity of the bot in a text and in a
\* caption.
EntityUpdates ==
    {Some(Msg(c, "group", <<"@","B","o","t","t","y">>, <<>>, None, None, en, <<>>, None)) :
        c \in ChatIds,
        en \in {<<>>, <<Entity("mention", 0, 6, None)>>,
                <<Entity("text_mention", 0, 6, Some(BotId + 1))>>}}
    \cup {Some(Msg(c, "group", <<"h","i"," ">> \o AtBot, <<>>, None, None,
                    <<Entity("mention", 3, 4, None)>>, <<>>, None)) :
             c \in ChatIds}
    \cup {Some(Msg(c, "supergroup", <<>>, <<"h","i"," ">> \o AtBot, Some(V1), None,
                    <<>>, <<Entity("mention", 3, 4, None)>>, None)) :
             c \in ChatIds}
    \cup {Some(Msg(c, ty, <<>>, TplNoLink, Some(V1), None, <<>>, <<>>, None)) :
             c \in ChatIds, ty \in GroupTypes}

\* Templates with and without a source link, with every attachment of the
\* message and of the message replied to; and a template without tags.
TemplateUpdates ==
    {Some(Msg(c, "supergroup", t, <<>>, cur[1], cur[2], <<>>, <<>>, re)) :
        c \in ChatIds, t \in {TplLink, TplNoLink},
        cur \in {<<None, None>>, <<Some(V1), None>>, <<None, Doc(V1, VideoMime)>>,
                 <<None, Doc(V1, PdfMime)>>},
        re \in {None, Reply(Some(V2), None), Reply(None, Doc(V2, VideoMime)),
                Reply(None, Doc(V2, PdfMime))}}
    \cup {Some(Msg(c, "group", TplNoTags, <<>>, Some(V1), None, <<>>, <<>>, None)) :
             c \in ChatIds}

GroupUpdates == MentionUpdates \cup TemplateUpdates

\* What the platform may answer to getMe: the bot's user, a user without a
\* handle, a result without id and handle, an error response without a
\* result, and a text that is not JSON.
MeResponses ==
    { [kind |-> "json", result |-> Some([id |-> Some(BotId), username |-> Some(BotName)])],
      [kind |-> "json", result |-> Some([id |-> Some(BotId), username |-> None])],
      [kind |-> "json", result |-> Some([id |-> None, username |-> None])],
      [kind |-> "json", result |-> None],
      [kind |-> "notJson", result |-> None] }

\* What getMe returns for the responses that are JSON.
GroupMes == {getMe(resp) : resp \in {r \in MeResponses : r.kind = "json"}}

\* What getMe returns for every response.
MentionMes == {getMe(resp) : resp \in MeResponses}

\* What the state store may hold when the worker starts: nothing, a text
\* that is not JSON, or a state written earlier (by this or another version
\* of the program): every combination of absent, empty and set fields at
\* awaiting_confirm; all fields absent or all set at the other steps and at
\* a step name the program does not know.
OptChoices(v) == {None, Some(<<>>), Some(v)}

PriorStates(c) ==
    {ChatState(c, "awaiting_confirm", v, t, d, g, 0) :
        v \in OptChoices(V1), t \in OptChoices(<<"t">>),
        d \in OptChoices(<<"d">>), g \in OptChoices(<<<<"g">>>>)}
    \cup
    {ChatState(c, st, o, o, o, IF o = None THEN None ELSE Some(<<o[1]>>), 0) :
        st \in {"awaiting_video", "awaiting_title", "awaiting_description",
                "awaiting_tags", "unknown_step"},
        o \in {None, Some(<<"p">>)}}

PriorStored(c) == {None, Some(Garbage)} \cup {Some(stringify(s)) : s \in PriorStates(c)}

\* No request is in progress.
NoneInFlight == <<>>

InitCommon ==
    /\ proc = NewProcessor
    /\ before = kv
    /\ upd = None
    /\ calls = <<>>
    /\ outcome = "none"
    /\ inflight = NoneInFlight
    /\ trace = <<>>

Init ==
    /\ kv \in {f \in [ChatIds -> UNION {PriorStored(c) : c \in ChatIds}] :
                  \A c \in ChatIds : f[c] \in PriorStored(c)}
    /\ InitCommon

\* The caps specification starts from an empty store.
InitCaps ==
    /\ kv = [c \in ChatIds |-> None]
    /\ InitCommon

\* The group specification starts with nothing, a text that is not JSON, a
\* state at the first or the last step, or a state at an unknown step.
GroupPriorStored(c) ==
    {None, Some(Garbage)}
    \cup {Some(stringify(ChatState(c, st, Some(V1), Some(<<"t">>), Some(<<"d">>),
                                  Some(<<<<"g">>>>), 0))) :
             st \in {"awaiting_video", "awaiting_confirm", "unknown_step"}}

InitGroup ==
    /\ kv \in {f \in [ChatIds -> UNION {GroupPriorStored(c) : c \in ChatIds}] :
                  \A c \in ChatIds : f[c] \in GroupPriorStored(c)}
    /\ InitCommon

(***************************************************************************)
(* Actions                                                                 *)
(***************************************************************************)
\* The request's result r becomes the state.
Commit(update, r) ==
    /\ kv' = r.store
    /\ proc' = r.proc
    /\ before' = kv
    /\ upd' = update
    /\ calls' = r.calls
    /\ outcome' = r.outcome
    /\ UNCHANGED <<inflight, trace>>

\* One request to /webhook carrying update, with the collaborators' answers e.
Webhook(update, e) == \E r \in {Run(kv, update, e)} : Commit(update, r)

DefaultMe == [id |-> Some(BotId), username |-> Some(BotName)]

DefaultAnswers == [me |-> DefaultMe, fileOk |-> TRUE, respOk |-> TRUE, t |-> 0, failAt |-> 0]

UsesOp(plan, op) == \E i \in 1..Len(plan) : plan[i].op = op

\* The collaborators' answers to one request, up to the answers the request
\* never asks for: the bot identity (one of mes), the file check, the
\* workflow's status, the clock, and which call, if any, throws (one of
\* fails, 0 for none).
AnswersTo(store, update, plan, me, fails) ==
    { e \in [me     : {me},
             fileOk : IF UsesOp(plan, "tg.getFile") THEN BOOLEAN ELSE {TRUE},
             respOk : IF UsesOp(plan, "n8n.sendVideo") THEN BOOLEAN ELSE {TRUE},
             t      : IF UsesOp(plan, "repo.save") THEN Times ELSE {0},
             failAt : fails] :
        \/ e.failAt = 0
        \/ e.failAt <= Len(handleUpdateCalls(store, NewProcessor, update,
                                             [e EXCEPT !.failAt = 0])) }

Answers(store, update, mes, fails) ==
    UNION { UNION { AnswersTo(store, update, plan, me, fails) :
                    plan \in { handleUpdateCalls(store, NewProcessor, update,
                                                 [DefaultAnswers EXCEPT !.me = me]) } }
          : me \in mes }

\* The requests the worker may receive: an update and the answers to it.
Requests(store, updates, mes, fails) ==
    UNION { {<<update, e>> : e \in Answers(store, update, mes, fails)} : update \in updates }

\* A request of the wizard specification: every call returns.
WizardRequest ==
    \E r \in Requests(kv, WizardUpdates, {DefaultMe}, {0}) : Webhook(r[1], r[2])

\* The retention window of a stored state ends (kv.put's expirationTtl).
Expire ==
    \E c \in ChatIds :
        /\ kv[c] # None
        /\ kv' = [kv EXCEPT ![c] = None]
        /\ before' = kv
        /\ upd' = None
        /\ calls' = <<>>
        /\ outcome' = "expired"
        /\ UNCHANGED <<proc, inflight, trace>>

\* A request of the caps specification.
CapsRequest ==
    \E r \in Requests(kv, CapsUpdates, {DefaultMe}, {0}) : Webhook(r[1], r[2])

\* A request of the group specification.
GroupRequest ==
    \E r \in Requests(kv, GroupUpdates, GroupMes, {0}) : Webhook(r[1], r[2])

\* A request of the mention specification: every call returns, or the first
\* one (the request behind getMe) throws.
MentionRequest ==
    \E r \in Requests(kv, MentionUpdates \cup EntityUpdates, MentionMes, {0, 1}) :
        Webhook(r[1], r[2])

Next ==
    \/ WizardRequest
    \/ Expire

NextCaps ==
    \/ CapsRequest
    \/ Expire

NextGroup ==
    \/ GroupRequest
    \/ Expire

NextMention ==
    \/ MentionRequest
    \/ Expire

\* Updates of the whole-handler specification: none; private texts (the
\* commands, a plain text, a text without a tag, no text) and a private
\* video; in groups a /start that does not mention the bot, templates with
\* and without tags that attach a video, and a template with a source link
\* and no reply.
HandlerUpdates ==
    {None}
    \cup {Some(PrivateMsg(c, t, None, None)) :
             c \in ChatIds,
             t \in {StrStart, StrSlashCancel, StrSlashConfirm, TextHi, <<",">>, <<>>}}
    \cup {Some(PrivateMsg(c, <<>>, Some(V1), None)) : c \in ChatIds}
    \cup {Some(Msg(c, "group", StrStart, <<>>, None, None, <<>>, <<>>, None)) : c \in ChatIds}
    \cup {Some(Msg(c, "supergroup", t, <<>>, Some(V1), None, <<>>, <<>>, None)) :
             c \in ChatIds, t \in {TplNoLink, TplNoTags, TplLink}}

\* The whole-handler specification starts with nothing, a text that is not
\* JSON, a state with every field set at each step and at an unknown step,
\* or a state at the last step without a title.
HandlerPriorStored(c) ==
    {None, Some(Garbage)}
    \cup {Some(stringify(ChatState(c, st, Some(V1), Some(<<"t">>), Some(<<"d">>),
                                  Some(<<<<"g">>>>), 0))) :
             st \in {"awaiting_video", "awaiting_title", "awaiting_description",
                     "awaiting_tags", "awaiting_confirm", "unknown_step"}}
    \cup {Some(stringify(ChatState(c, "awaiting_confirm", Some(V1), None, Some(<<"d">>),
                                  Some(<<<<"g">>>>), 0)))}

InitHandler ==
    /\ kv \in {f \in [ChatIds -> UNION {HandlerPriorStored(c) : c \in ChatIds}] :
                  \A c \in ChatIds : f[c] \in HandlerPriorStored(c)}
    /\ InitCommon

\* A request of the whole-handler specification.
HandlerRequest ==
    \E r \in Requests(kv, HandlerUpdates, {DefaultMe}, {0}) : Webhook(r[1], r[2])

NextHandler ==
    \/ HandlerRequest
    \/ Expire

\* The private wizard with short texts, from any prior store.
Spec == Init /\ [][Next]_vars

\* The private wizard with texts longer than the caps.
SpecCaps == InitCaps /\ [][NextCaps]_vars

\* Group and supergroup messages.
SpecGroup == InitGroup /\ [][NextGroup]_vars

\* Private and group messages together.
SpecHandler == InitHandler /\ [][NextHandler]_vars

\* Group and supergroup messages with entities, and every outcome of the
\* identity request.
SpecMention == InitGroup /\ [][NextMention]_vars

(***************************************************************************)
(* The tags specification: the same tag texts sent to the wizard at step   *)
(* awaiting_tags and written under the tags header of a group template.    *)
(***************************************************************************)
\* "آموزش", "برنامه", "نویسی", "جاوااسکریپت"
WordAmuzesh == <<"alefmadda","mim","vav","ze","shin">>

WordBarnameh == <<"be","re","nun","alef","mim","heh">>

WordNevisi == <<"nun","vav","ye","sin","ye">>

WordJavascript == <<"jim","alef","vav","alef","alef","sin","kaf","re","ye","pe","te">>

\* "آموزش, برنامه نویسی و جاوااسکریپت"
TagsExample ==
    WordAmuzesh \o <<",", " ">> \o WordBarnameh \o <<" ">> \o WordNevisi
    \o <<" ", "vav", " ">> \o WordJavascript

\* Tag texts: the example; ASCII commas with blanks, an empty piece and '#';
\* a Persian comma; the words "و" and "and" between blanks; "and" inside a
\* word; one tag more than the cap.
TagTexts ==
    { TagsExample,
      TextTags,
      <<"#","a",",",","," ","b"," ">>,
      <<"a","pcomma"," ","b">>,
      <<"x"," ","vav"," ","y">>,
      <<"a"," ","A","n","d"," ","b">>,
      <<"b","r","a","n","d">>,
      TextManyTags }

\* A template whose tags section is the text t.
TagTemplate(t) == AtBot \o NL \o TplBody \o HdrTag \o <<" ">> \o HdrHa \o <<":">> \o NL \o t

TagUpdates ==
    {Some(PrivateMsg(c, t, None, None)) : c \in ChatIds, t \in TagTexts}
    \cup {Some(Msg(c, "group", TagTemplate(t), <<>>, Some(V1), None, <<>>, <<>>, None)) :
             c \in ChatIds, t \in TagTexts}

\* The store holds nothing or a state that waits for the tags.
TagsPriorStored(c) ==
    {None,
     Some(stringify(ChatState(c, "awaiting_tags", Some(V1), Some(<<"t">>), Some(<<"d">>),
                              None, 0)))}

InitTags ==
    /\ kv \in {f \in [ChatIds -> UNION {TagsPriorStored(c) : c \in ChatIds}] :
                  \A c \in ChatIds : f[c] \in TagsPriorStored(c)}
    /\ InitCommon

\* A request of the tags specification.
TagsRequest ==
    \E r \in Requests(kv, TagUpdates, {DefaultMe}, {0}) : Webhook(r[1], r[2])

NextTags ==
    \/ TagsRequest
    \/ Expire

\* Tag texts in the wizard and in group templates.
SpecTags == InitTags /\ [][NextTags]_vars

(***************************************************************************)
(* Concurrent requests.  Every request to /webhook is an invocation of     *)
(* fetch with a repository and a processor of its own (worker.ts, lines    *)
(* 27-30); handleUpdate awaits its calls one after another (line 32), and  *)
(* between two calls of one request the calls of another request may       *)
(* complete.  The KV namespace serves one get, put or delete at a time and *)
(* has neither a lock nor a version check (part_002, lines 8-27).          *)
(***************************************************************************)
\* Updates of the concurrent specification: /cancel, /confirm, and a text
\* that is a description at awaiting_description and tags at awaiting_tags.
RaceUpdates ==
    {Some(PrivateMsg(c, t, None, None)) :
        c \in ChatIds, t \in {StrSlashCancel, StrSlashConfirm, TextTags}}

\* The store holds a state of the wizard at one of its last three steps,
\* with the fields that step has collected.
RacePriorStored(c) ==
    { Some(stringify(ChatState(c, "awaiting_description", Some(V1), Some(<<"t">>), None,
                               None, 0))),
      Some(stringify(ChatState(c, "awaiting_tags", Some(V1), Some(<<"t">>), Some(<<"d">>),
                               None, 0))),
      Some(stringify(ChatState(c, "awaiting_confirm", Some(V1), Some(<<"t">>), Some(<<"d">>),
                               Some(<<<<"g">>>>), 0))) }

InitRace ==
    /\ kv \in {f \in [ChatIds -> UNION {RacePriorStored(c) : c \in ChatIds}] :
                  \A c \in ChatIds : f[c] \in RacePriorStored(c)}
    /\ InitCommon

\* At most MaxOverlap requests arrive before all of them have ended.
MaxOverlap == 2

\* The requests that may arrive while the store is `store`; the clock of the
\* concurrent specification reads 0.
RaceRequests(store) ==
    { r \in Requests(store, RaceUpdates, {DefaultMe}, {0}) : r[2].t = 0 }

\* A request in progress: its update, the answers it gets, the store as it
\* was when the request issued its first call, the calls it issues, and how
\* many of them have completed.
InFlight(update, e, found, plan, done) ==
    [upd |-> update, e |-> e, found |-> found, plan |-> plan, done |-> done]

\* The n-th request has no call left to complete.
Ended(n) == inflight[n].done = Len(inflight[n].plan)

\* The requests that have calls left to complete.
Running == {n \in 1..Len(inflight) : ~ Ended(n)}

\* The calls that read or write what the requests share: the store and the
\* workflow.  The calls to the messaging API touch neither.
IsShared(c) == c.op \in {"repo.get", "repo.save", "repo.delete", "n8n.sendVideo"}

\* How far the request r gets when it runs on without interruption to the
\* completion of its next shared call, or to its end when it has none left.
RunsTo(r) ==
    IF \E k \in (r.done + 1)..Len(r.plan) : IsShared(r.plan[k])
    THEN CHOOSE k \in (r.done + 1)..Len(r.plan) :
            /\ IsShared(r.plan[k])
            /\ \A m \in (r.done + 1)..(k - 1) : ~ IsShared(r.plan[m])
    ELSE Len(r.plan)

\* The n-th request r completes its calls up to the k-th.  When the calls to
\* the messaging API complete in relation to the calls of other requests
\* changes nothing any request reads, so no other request is scheduled
\* between them and the shared call that follows.
Completes(n, r, k) ==
    /\ kv' = ApplyCalls(kv, SubSeq(r.plan, r.done + 1, k))
    /\ trace' = trace \o [i \in 1..(k - r.done) |-> [n |-> n, call |-> r.plan[r.done + i]]]
    /\ inflight' = [i \in 1..(IF n > Len(inflight) THEN n ELSE Len(inflight)) |->
                        IF i = n THEN [r EXCEPT !.done = k] ELSE inflight[i]]
    /\ UNCHANGED <<proc, before, upd, calls, outcome>>

\* fetch, lines 25-32: a request arrives while fewer than MaxOverlap have
\* arrived since no request was in progress, and handleUpdate runs to the
\* end of its first shared call.  What the handler does after a repo.get
\* depends on the store only through what that get answers, and the
\* commands issue no get, so the calls of the request are those of
\* handleUpdate on the store of this moment.
FetchBegins ==
    /\ Len(inflight) < MaxOverlap
    /\ \E q \in RaceRequests(kv) :
          \E r \in {InFlight(q[1], q[2], kv,
                             handleUpdateCalls(kv, NewProcessor, q[1], q[2]), 0)} :
              /\ r.plan # <<>>
              /\ Completes(Len(inflight) + 1, r, RunsTo(r))

\* handleUpdate of the n-th request resumes after an await.
FetchResumes(n) ==
    /\ ~ Ended(n)
    /\ Completes(n, inflight[n], RunsTo(inflight[n]))

\* fetch, line 33: the requests in progress have all returned and are
\* answered; no request overlaps with the ones that arrive from now on.
FetchesEnd ==
    /\ inflight # NoneInFlight
    /\ Running = {}
    /\ inflight' = NoneInFlight
    /\ trace' = <<>>
    /\ UNCHANGED <<kv, proc, before, upd, calls, outcome>>

NextRace ==
    \/ FetchBegins
    \/ \E n \in 1..Len(inflight) : FetchResumes(n)
    \/ FetchesEnd

\* Private messages of one conversation handled by invocations that overlap
\* in time.
SpecRace == InitRace /\ [][NextRace]_vars

(***************************************************************************)
(* The wizard from an empty store, with calls that throw: a rejected fetch *)
(* behind a call to the messaging API or to the workflow, or a failing KV  *)
(* operation, ends handleUpdate at that call (worker.ts, lines 32-38).     *)
(***************************************************************************)
\* "#": a tags text that is one hash sign.
TextHash == <<"#">>

\* /start, a video, a plain text, the hash sign, /confirm.
FaultUpdates ==
    {Some(PrivateMsg(c, t, None, None)) :
        c \in ChatIds, t \in {StrStart, StrSlashConfirm, TextHi, TextHash}}
    \cup {Some(PrivateMsg(c, <<>>, Some(V1), None)) : c \in ChatIds}

\* No call throws, or one of the first MaxFailAt calls of the request does;
\* a private message leads to five calls at most.
MaxFailAt == 5

FailPoints == 0..MaxFailAt

\* A request of the faults specification.
FaultRequest ==
    \E r \in Requests(kv, FaultUpdates, {DefaultMe}, FailPoints) : Webhook(r[1], r[2])

NextFaults ==
    \/ FaultRequest
    \/ Expire

\* The private wizard from an empty store, with calls that throw.
SpecFaults == InitCaps /\ [][NextFaults]_vars

(***************************************************************************)
(* What a request shows: the update it carried (u), the calls it issued    *)
(* (cs), how it ended (o), and the store before and after it.              *)
(***************************************************************************)
IsSendVideo(c) == c.op = "n8n.sendVideo"

IsSendMessage(c) == c.op = "tg.sendMessage"

\* The workflow dispatches among the calls, in order.
DispatchesOf(cs) == SelectSeq(cs, IsSendVideo)

\* The texts sent among the calls, in order.
MessagesOf(cs) ==
    [i \in 1..Len(SelectSeq(cs, IsSendMessage)) |-> SelectSeq(cs, IsSendMessage)[i].arg]

OpsOf(cs) == {cs[i].op : i \in 1..Len(cs)}

\* A request with a message of a private chat was handled to its end.
PrivateRequest(u, o) == o = "returned" /\ u # None /\ u[1].chat_type = "private"

\* A request with a message of a group or supergroup was received.
GroupMessage(u) == u # None /\ u[1].chat_type \in {"group", "supergroup"}

\* The store holds a readable state for the conversation.
Stored(store, c) == store[c] # None /\ store[c][1].valid

\* The stored object of the conversation.
FieldsOf(store, c) == store[c][1].obj

FieldNames == {"video_file_id", "title", "description", "tags"}

\* The text of the message as the handler compares it.
TextOf(u) == trim(u[1].text)

SuccessorOf ==
    [awaiting_video |-> "awaiting_title", awaiting_title |-> "awaiting_description",
     awaiting_description |-> "awaiting_tags", awaiting_tags |-> "awaiting_confirm"]

(***************************************************************************)
(* Properties of the private wizard                                        *)
(***************************************************************************)
\* C1: after a private message whose text is exactly /start, whatever was
\* stored for the conversation, a state is stored for it at step
\* awaiting_video with none of video reference, title, description, tags.
C1_StartOpensFreshState ==
    (PrivateRequest(upd, outcome) /\ upd[1].text = StrStart) =>
        /\ Stored(kv, upd[1].chat_id)
        /\ FieldsOf(kv, upd[1].chat_id).step = "awaiting_video"
        /\ FieldsOf(kv, upd[1].chat_id).chatId = upd[1].chat_id
        /\ DOMAIN FieldsOf(kv, upd[1].chat_id) \cap FieldNames = {}

\* A /start was handled in a conversation whose stored state was complete at
\* the last step, and the state now stored is the fresh one.
C1_Witness ==
    /\ PrivateRequest(upd, outcome) /\ upd[1].text = StrStart
    /\ Stored(before, upd[1].chat_id)
    /\ FieldsOf(before, upd[1].chat_id).step = "awaiting_confirm"
    /\ FieldNames \subseteq DOMAIN FieldsOf(before, upd[1].chat_id)
    /\ Stored(kv, upd[1].chat_id)
    /\ FieldsOf(kv, upd[1].chat_id).step = "awaiting_video"

\* C2: a request other than /start that finds a stored state leaves its step
\* as it is, moves it to the next step of the sequence, or deletes the state.
C2_StepOnlyAdvances ==
    (/\ upd # None /\ upd[1].chat_type = "private" /\ outcome \in {"returned", "threw"}
     /\ TextOf(upd) # StrStart
     /\ Stored(before, upd[1].chat_id)) =>
        \/ kv[upd[1].chat_id] = None
        \/ /\ Stored(kv, upd[1].chat_id)
           /\ \/ FieldsOf(kv, upd[1].chat_id).step = FieldsOf(before, upd[1].chat_id).step
              \/ /\ FieldsOf(before, upd[1].chat_id).step \in DOMAIN SuccessorOf
                 /\ FieldsOf(kv, upd[1].chat_id).step
                        = SuccessorOf[FieldsOf(before, upd[1].chat_id).step]

\* A request moved the stored step from awaiting_tags to awaiting_confirm.
C2_Witness ==
    /\ PrivateRequest(upd, outcome) /\ TextOf(upd) # StrStart
    /\ Stored(before, upd[1].chat_id) /\ Stored(kv, upd[1].chat_id)
    /\ FieldsOf(before, upd[1].chat_id).step = "awaiting_tags"
    /\ FieldsOf(kv, upd[1].chat_id).step = "awaiting_confirm"

\* The message fails the validation of the step the stored state is at: no
\* video at awaiting_video, empty text at awaiting_title or
\* awaiting_description, empty text or no tag at awaiting_tags, neither a
\* confirm nor a cancel keyword at awaiting_confirm.
FailsStepValidation(u, step) ==
    \/ step = "awaiting_video" /\ u[1].video = None
    \/ step \in {"awaiting_title", "awaiting_description"} /\ TextOf(u) = <<>>
    \/ step = "awaiting_tags" /\ (TextOf(u) = <<>> \/ parseTags(TextOf(u)) = <<>>)
    \/ step = "awaiting_confirm" /\ ~ isConfirmText(TextOf(u)) /\ ~ isCancelText(TextOf(u))

\* The request issued no save and no delete and the store is as it was.
StoreUntouched == kv = before /\ OpsOf(calls) \cap {"repo.save", "repo.delete"} = {}

\* C3 as stated: a private message that fails the validation of the step
\* causes no save and no delete, and the stored state is the same after it.
C3_AsStated ==
    (/\ PrivateRequest(upd, outcome) /\ Stored(before, upd[1].chat_id)
     /\ FailsStepValidation(upd, FieldsOf(before, upd[1].chat_id).step)) =>
        StoreUntouched

\* C3: a private message that is neither /start nor a cancel keyword and
\* fails the validation of the step causes no save and no delete, and the
\* stored state is the same after it.
C3_RejectionKeepsState ==
    (/\ PrivateRequest(upd, outcome) /\ Stored(before, upd[1].chat_id)
     /\ TextOf(upd) # StrStart /\ ~ isCancelText(TextOf(upd))
     /\ FailsStepValidation(upd, FieldsOf(before, upd[1].chat_id).step)) =>
        StoreUntouched

\* A text without a tag was rejected at awaiting_tags and the state kept.
C3_Witness ==
    /\ PrivateRequest(upd, outcome) /\ Stored(before, upd[1].chat_id)
    /\ FieldsOf(before, upd[1].chat_id).step = "awaiting_tags"
    /\ TextOf(upd) # <<>> /\ parseTags(TextOf(upd)) = <<>>
    /\ MessagesOf(calls) = <<"needTag">>
    /\ kv = before

\* The payloads of the dispatches among the calls that the workflow answered
\* with ok.
PayloadsAnswered(cs, ok) ==
    {cs[i].arg : i \in {j \in 1..Len(cs) : IsSendVideo(cs[j]) /\ cs[j].res = ok}}

\* A confirm keyword arrived in a private chat and was handled to its end.
ConfirmRequest(u, o) == PrivateRequest(u, o) /\ isConfirmText(TextOf(u))

SamePayload(p, q) ==
    /\ p.title = q.title /\ p.description = q.description
    /\ p.tags = q.tags /\ p.video = q.video

\* C5: when the dispatch of a confirm gets a non-success answer the stored
\* state stays as it was, at awaiting_confirm, and a confirm that follows
\* dispatches the same title, description, tags and video reference again.
C5_FailedDispatchKeepsState ==
    [][ (ConfirmRequest(upd, outcome) /\ PayloadsAnswered(calls, FALSE) # {}) =>
          /\ kv = before
          /\ Stored(kv, upd[1].chat_id)
          /\ FieldsOf(kv, upd[1].chat_id).step = "awaiting_confirm"
          /\ (ConfirmRequest(upd', outcome') /\ upd'[1].chat_id = upd[1].chat_id) =>
                /\ Len(DispatchesOf(calls')) = 1
                /\ \A p \in PayloadsAnswered(calls, FALSE) :
                       SamePayload(DispatchesOf(calls')[1].arg, p) ]_vars

\* A confirm was dispatched, the workflow answered with a non-success
\* status, and the state is still stored.
C5_Witness ==
    /\ ConfirmRequest(upd, outcome)
    /\ PayloadsAnswered(calls, FALSE) # {}
    /\ MessagesOf(calls) = <<"dispatchFailed">>
    /\ Stored(kv, upd[1].chat_id)

\* C6: when the dispatch of a confirm gets a success answer the state of the
\* conversation is deleted, and a confirm that follows dispatches nothing and
\* only gets the prompt to /start first.
C6_SuccessDeletesState ==
    [][ (ConfirmRequest(upd, outcome) /\ PayloadsAnswered(calls, TRUE) # {}) =>
          /\ kv[upd[1].chat_id] = None
          /\ (ConfirmRequest(upd', outcome') /\ upd'[1].chat_id = upd[1].chat_id) =>
                /\ DispatchesOf(calls') = <<>>
                /\ MessagesOf(calls') = <<"startFirst">>
                /\ kv'[upd[1].chat_id] = None ]_vars

\* A confirm was dispatched, the workflow answered with success, and no
\* state is stored any more.
C6_Witness ==
    /\ ConfirmRequest(upd, outcome)
    /\ PayloadsAnswered(calls, TRUE) # {}
    /\ Stored(before, upd[1].chat_id)
    /\ kv[upd[1].chat_id] = None

\* One of video reference, title, description, tags is absent or empty in
\* the stored object.
NotPopulated(obj) == \E k \in FieldNames : k \notin DOMAIN obj \/ obj[k] = <<>>

\* C7: for a stored state at awaiting_confirm in which one of video
\* reference, title, description, tags is absent or empty, a confirm
\* dispatches nothing, sends the error text and deletes the state.
C7_IncompleteStateIsPurged ==
    (/\ ConfirmRequest(upd, outcome)
     /\ Stored(before, upd[1].chat_id)
     /\ FieldsOf(before, upd[1].chat_id).step = "awaiting_confirm"
     /\ NotPopulated(FieldsOf(before, upd[1].chat_id))) =>
        /\ DispatchesOf(calls) = <<>>
        /\ MessagesOf(calls) = <<"incomplete">>
        /\ kv[upd[1].chat_id] = None

(***************************************************************************)
(* Properties of the wizard's payload                                      *)
(***************************************************************************)
\* s cut to at most n code units.
CutTo(s, n) == SubSeq(s, 1, IF Len(s) < n THEN Len(s) ELSE n)

\* The last request moved the stored state of its conversation from step
\* `from` to step `to`.
StepSaved(from, to) ==
    /\ PrivateRequest(upd, outcome)
    /\ Stored(before, upd[1].chat_id) /\ FieldsOf(before, upd[1].chat_id).step = from
    /\ Stored(kv, upd[1].chat_id) /\ FieldsOf(kv, upd[1].chat_id).step = to

\* The field a step writes.
FieldSetAt ==
    [awaiting_video |-> "video_file_id", awaiting_title |-> "title",
     awaiting_description |-> "description", awaiting_tags |-> "tags",
     awaiting_confirm |-> "none"]

\* C4: along a wizard run the payload handed to the dispatch carries the
\* stored title, description, tags and video reference; the title is stored
\* as the title text cut to 100 code units, the description as its text cut
\* to 5000, the tag list with at most 30 entries, the video reference as the
\* file id of the video message; and a step leaves the fields stored by the
\* earlier steps as they are.
C4_PayloadCarriesStoredFields ==
    PrivateRequest(upd, outcome) =>
        LET c == upd[1].chat_id
        IN  /\ \A i \in 1..Len(DispatchesOf(calls)) :
                  /\ Stored(before, c)
                  /\ FieldNames \subseteq DOMAIN FieldsOf(before, c)
                  /\ DispatchesOf(calls)[i].arg.title = FieldsOf(before, c).title
                  /\ DispatchesOf(calls)[i].arg.description = FieldsOf(before, c).description
                  /\ DispatchesOf(calls)[i].arg.tags = FieldsOf(before, c).tags
                  /\ DispatchesOf(calls)[i].arg.video = FieldsOf(before, c).video_file_id
            /\ StepSaved("awaiting_video", "awaiting_title") =>
                  FieldsOf(kv, c).video_file_id = upd[1].video[1]
            /\ StepSaved("awaiting_title", "awaiting_description") =>
                  FieldsOf(kv, c).title = CutTo(TextOf(upd), TitleCap)
            /\ StepSaved("awaiting_description", "awaiting_tags") =>
                  FieldsOf(kv, c).description = CutTo(TextOf(upd), DescriptionCap)
            /\ StepSaved("awaiting_tags", "awaiting_confirm") =>
                  Len(FieldsOf(kv, c).tags) \in 1..TagsCap
            /\ (Stored(before, c) /\ Stored(kv, c) /\ TextOf(upd) # StrStart) =>
                  \A k \in FieldNames \cap DOMAIN FieldsOf(before, c) :
                      k # FieldSetAt[FieldsOf(before, c).step] =>
                          /\ k \in DOMAIN FieldsOf(kv, c)
                          /\ FieldsOf(kv, c)[k] = FieldsOf(before, c)[k]

\* A run with a title, a description and a tag list longer than the caps
\* was confirmed: the payload carries them cut to the caps.
C4_Witness ==
    /\ ConfirmRequest(upd, outcome)
    /\ Len(DispatchesOf(calls)) = 1
    /\ DispatchesOf(calls)[1].arg.title = CutTo(TextLongTitle, TitleCap)
    /\ Len(DispatchesOf(calls)[1].arg.description) = DescriptionCap
    /\ Len(DispatchesOf(calls)[1].arg.tags) = TagsCap
    /\ DispatchesOf(calls)[1].arg.video = V1

(***************************************************************************)
(* Properties of the group path                                            *)
(***************************************************************************)
\* The bot identity the last request worked with: what getMe answered.
IdentityOf(cs) ==
    IF cs # <<>> /\ cs[1].op = "tg.getMe" THEN identityFrom(cs[1].res) ELSE NewProcessor

\* The last request carried a group message that does not mention the bot.
Unmentioned ==
    /\ GroupMessage(upd)
    /\ outcome = "returned"
    /\ ~ isMentioned(upd[1], IdentityOf(calls).botUsername, IdentityOf(calls).botId)

\* C8: a group or supergroup message that does not mention the bot gets no
\* text message, no dispatch and no store operation, whatever it carries and
\* whatever is stored for the conversation.
C8_UnmentionedIsIgnored ==
    Unmentioned => (OpsOf(calls) \subseteq {"tg.getMe"} /\ kv = before)

\* A /start in a group whose conversation id has a stored state, with the
\* bot's identity known and not mentioned.
C8_Witness ==
    /\ Unmentioned
    /\ upd[1].text = StrStart
    /\ IdentityOf(calls) = identityFrom(DefaultMe)
    /\ Stored(before, upd[1].chat_id)

\* C9: no branch of the group path issues a get, save or delete to the
\* state store; what is stored is the same before and after.
C9_GroupPathIsStateless ==
    GroupMessage(upd) =>
        /\ OpsOf(calls) \cap {"repo.get", "repo.save", "repo.delete"} = {}
        /\ kv = before

\* A group template was dispatched with success while a wizard state was
\* stored for the conversation id.
C9_Witness ==
    /\ GroupMessage(upd)
    /\ PayloadsAnswered(calls, TRUE) # {}
    /\ Stored(kv, upd[1].chat_id)

\* The video references of the calls with operation op.
RefsOf(cs, op) ==
    {IF op = "n8n.sendVideo" THEN cs[i].arg.video ELSE cs[i].arg :
        i \in {j \in 1..Len(cs) : cs[j].op = op}}

\* The last request carried a complete template and came to the choice of
\* the video.
ChoseVideo ==
    /\ GroupMessage(upd)
    /\ outcome = "returned"
    /\ "tg.sendChatAction" \in OpsOf(calls)

\* The source link of the template the last request parsed.
SourceLinkOf(u, cs) ==
    parseGroupTemplate(contentOf(trim(u[1].text), trim(u[1].caption)),
                       IdentityOf(cs).botUsername)[1].source_link

\* C10: with a source link the reference is the replied-to message's video
\* or video-typed document, never the message's own, and without one in the
\* replied-to message nothing is dispatched; with no source link the
\* replied-to message's reference is used when present, otherwise the
\* message's own video or video-typed document.
C10_VideoPrecedence ==
    ChoseVideo =>
        LET replied  == repliedVideoId(upd[1])
            current  == currentVideoId(upd[1])
            linked   == SourceLinkOf(upd, calls) # None
            expected == IF replied # None THEN replied
                        ELSE IF linked THEN None ELSE current
        IN  IF expected = None
            THEN RefsOf(calls, "tg.getFile") = {} /\ DispatchesOf(calls) = <<>>
            ELSE /\ RefsOf(calls, "tg.getFile") = {expected[1]}
                 /\ RefsOf(calls, "n8n.sendVideo") \subseteq {expected[1]}

\* A template with a source link, in a message with its own video that
\* replies to a message with a video, was dispatched with the latter.
C10_Witness ==
    /\ ChoseVideo
    /\ SourceLinkOf(upd, calls) = Some(Url)
    /\ currentVideoId(upd[1]) = Some(V1)
    /\ repliedVideoId(upd[1]) = Some(V2)
    /\ RefsOf(calls, "n8n.sendVideo") = {V2}

\* The template the last request parsed from the message's text or caption
\* (None when the parser answered null).
ParsedOf(u, cs) ==
    parseGroupTemplate(contentOf(trim(u[1].text), trim(u[1].caption)),
                       IdentityOf(cs).botUsername)

\* The answers of the file checks among the calls for the reference ref.
FileChecksOf(cs, ref) ==
    {cs[i].res : i \in {j \in 1..Len(cs) : cs[j].op = "tg.getFile" /\ cs[j].arg = ref}}

\* The answers of all the file checks among the calls.
RefsOfChecks(cs) == {cs[i].res : i \in {j \in 1..Len(cs) : cs[j].op = "tg.getFile"}}

\* The last request carried a group message that mentions the bot.
Mentioned ==
    /\ GroupMessage(upd)
    /\ outcome = "returned"
    /\ isMentioned(upd[1], IdentityOf(calls).botUsername, IdentityOf(calls).botId)

\* C11: the group path dispatches only a template with a title, a
\* description and at least one tag, with a video reference whose file check
\* reported ok; a template with title and description and no tag gets the
\* guidance text and no dispatch; a file check that is not ok gets the error
\* text and no dispatch.
C11_GroupDispatchNeedsAll ==
    (GroupMessage(upd) /\ outcome = "returned") =>
        /\ \A i \in 1..Len(DispatchesOf(calls)) :
              /\ ParsedOf(upd, calls) # None
              /\ TruthyStr(ParsedOf(upd, calls)[1].title)
              /\ TruthyStr(ParsedOf(upd, calls)[1].description)
              /\ ParsedOf(upd, calls)[1].tags # None
              /\ Len(ParsedOf(upd, calls)[1].tags[1]) >= 1
              /\ DispatchesOf(calls)[i].arg.video # <<>>
              /\ FileChecksOf(calls, DispatchesOf(calls)[i].arg.video) = {TRUE}
        /\ (/\ Mentioned
            /\ ParsedOf(upd, calls) # None
            /\ TruthyStr(ParsedOf(upd, calls)[1].title)
            /\ TruthyStr(ParsedOf(upd, calls)[1].description)
            /\ ParsedOf(upd, calls)[1].tags = None) =>
               (MessagesOf(calls) = <<"guidance">> /\ DispatchesOf(calls) = <<>>)
        /\ FALSE \in RefsOfChecks(calls) =>
               (MessagesOf(calls) = <<"fileError">> /\ DispatchesOf(calls) = <<>>)

\* A template with title and description and no tag, with a video attached,
\* got the guidance text.
C11_Witness ==
    /\ Mentioned
    /\ upd[1].text = TplNoTags
    /\ currentVideoId(upd[1]) = Some(V1)
    /\ MessagesOf(calls) = <<"guidance">>

(***************************************************************************)
(* Properties of the tag lists                                             *)
(***************************************************************************)
\* The tag-splitting rule as it is specified: a separator is a run of
\* commas (ASCII or Persian) and newlines, or the word "و" or "and" with
\* whitespace on both sides together with that whitespace.  ruleSepEndAt is
\* where a separator that starts at p ends (0 when none starts at p).
ruleSepEndAt(s, p) ==
    LET cls == {",", "pcomma", "\n"}
        q   == wsRunEnd(s, p)
    IN  IF s[p] \in cls
        THEN (IF \A i \in p..Len(s) : s[i] \in cls THEN Len(s)
              ELSE (CHOOSE e \in p..Len(s) :
                        s[e] \notin cls /\ \A i \in p..(e-1) : s[i] \in cls) - 1)
        ELSE IF /\ s[p] \in WhiteSpace /\ q + 1 <= Len(s)
                /\ s[q] = "vav" /\ s[q + 1] \in WhiteSpace
        THEN wsRunEnd(s, q + 1) - 1
        ELSE IF /\ s[p] \in WhiteSpace /\ q + 3 <= Len(s)
                /\ toLowerCase(SubSeq(s, q, q + 2)) = <<"a","n","d">>
                /\ s[q + 3] \in WhiteSpace
        THEN wsRunEnd(s, q + 3) - 1
        ELSE 0

\* The scan of s from index p for separators that start at or before hi:
\* the separators found, and the index at which the scan goes on.  A
\* separator is looked for at p; the scan goes on behind it, or at p + 1
\* when none starts at p.
RECURSIVE ruleScan(_, _, _)
ruleScan(s, p, hi) ==
    IF p > hi THEN [cuts |-> {}, at |-> p]
    ELSE IF p = hi
    THEN The({ IF e = 0 THEN [cuts |-> {}, at |-> p + 1]
               ELSE [cuts |-> {<<p, e>>}, at |-> e + 1] : e \in {ruleSepEndAt(s, p)} })
    ELSE The({ The({ [cuts |-> l.cuts \cup r.cuts, at |-> r.at] :
                     r \in {ruleScan(s, l.at, hi)} }) :
               l \in {ruleScan(s, p, (p + hi) \div 2)} })

\* The separators found in s from index p on, left to right.
ruleCuts(s, p) == ruleScan(s, p, Len(s)).cuts

SplitAsSpecified(s) ==
    IF s = <<>> THEN <<>>
    ELSE mapStripHash(filterNonEmpty(mapTrim(SplitAtCuts(s, ruleCuts(s, 1)))))

\* The last request dispatched the group template whose tags section is t.
DispatchedTemplate(t) ==
    /\ GroupMessage(upd)
    /\ outcome = "returned"
    /\ upd[1].text = TagTemplate(t)
    /\ DispatchesOf(calls) # <<>>

\* C12: the tags of a template are its tags text cut at commas (ASCII or
\* Persian), at newlines and at the words "و" and "and" surrounded by
\* whitespace, each piece trimmed, empty pieces dropped, one leading '#'
\* stripped; the letters of "و" and "and" inside a word do not split it, so
\* the example text gives exactly its three tags.
C12_TagSplittingRule ==
    \A t \in TagTexts :
        DispatchedTemplate(t) =>
            /\ DispatchesOf(calls)[1].arg.tags = slice0(SplitAsSpecified(t), TagsCap)
            /\ t = TagsExample =>
                  DispatchesOf(calls)[1].arg.tags =
                      <<WordAmuzesh, WordBarnameh \o <<" ">> \o WordNevisi, WordJavascript>>

\* C13: the tag list the wizard stores at step awaiting_tags is, for every
\* text, the list the template parser's splitting gives for that text,
\* capped at 30.
C13_WizardSplitsAsParser ==
    StepSaved("awaiting_tags", "awaiting_confirm") =>
        FieldsOf(kv, upd[1].chat_id).tags = slice0(splitTags(TextOf(upd)), TagsCap)

(***************************************************************************)
(* Properties of the mention check and of the bot identity                 *)
(***************************************************************************)
\* The bot counts as mentioned, as specified, for the handle and id given:
\* a mention entity whose span is @handle, a text_mention entity of the
\* bot's id, or no entity at all and @handle somewhere in the text or
\* caption; letter case is ignored.
MentionedAsSpecified(msg, handle, id) ==
    LET entities == msg.entities \o msg.caption_entities
        text     == IF msg.text # <<>> THEN msg.text ELSE msg.caption
        at       == toLowerCase(<<"@">> \o handle)
    IN  \/ \E i \in 1..Len(entities) :
              /\ entities[i].type = "mention"
              /\ toLowerCase(substring(text, entities[i].offset,
                                        entities[i].offset + entities[i].length)) = at
        \/ \E i \in 1..Len(entities) :
              /\ entities[i].type = "text_mention"
              /\ entities[i].user_id = Some(id)
        \/ entities = <<>> /\ includes(toLowerCase(text), at)

\* The last request carried a group message and got the bot's handle and
\* id from getMe.
IdentityKnown ==
    /\ GroupMessage(upd)
    /\ outcome = "returned"
    /\ IdentityOf(calls) = identityFrom(DefaultMe)

\* C14: with the identity known, a group message is handled as one that
\* mentions the bot (it gets an answer) exactly when it has a mention entity
\* spanning @handle, a text_mention entity of the bot's id, or no entity and
\* @handle in its text or caption; with entities none of which refers to
\* the bot it is not, even if @handle is part of a longer string in it.
C14_MentionedExactlyWhen ==
    IdentityKnown =>
        (Len(calls) > 1 <=> MentionedAsSpecified(upd[1], BotName, BotId))

\* C15: once a group request has resolved the bot identity, a later group
\* request issues no getMe and works with the same identity.
C15_IdentityResolvedOnce ==
    [][ (IdentityKnown /\ GroupMessage(upd')) =>
            ("tg.getMe" \notin OpsOf(calls') /\ proc' = proc) ]_vars

\* The identity request of the last request failed: it threw, or what getMe
\* returned has neither id nor handle.
ResolutionFailed ==
    /\ GroupMessage(upd)
    /\ \/ calls = <<>>
       \/ IdentityOf(calls) = NewProcessor

\* C16: however the identity request fails, the message is handled as not
\* mentioned: handleUpdate returns without an error and nothing is sent,
\* dispatched or stored.
C16_ResolutionFailureDegrades ==
    ResolutionFailed =>
        /\ outcome = "returned"
        /\ OpsOf(calls) \subseteq {"tg.getMe"}
        /\ kv = before

(***************************************************************************)
(* Properties of the handler as a whole                                    *)
(***************************************************************************)
IsMutation(c) == c.op \in {"repo.save", "repo.delete"}

\* The operations of the saves and deletes among the calls, in order.
MutationsOf(cs) ==
    [i \in 1..Len(SelectSeq(cs, IsMutation)) |-> SelectSeq(cs, IsMutation)[i].op]

\* C17 as stated: a request issues at most one save or delete on every
\* branch, /start included, and an update without a message issues no call.
C17_AsStated ==
    outcome = "returned" =>
        /\ Len(MutationsOf(calls)) <= 1
        /\ upd = None => calls = <<>>

\* C17: a request issues at most one save or delete on every branch but
\* /start in a private chat, which issues one delete and then one save; an
\* update without a message issues no call.
C17_OneMutationButStart ==
    outcome = "returned" =>
        /\ upd = None => calls = <<>>
        /\ upd # None =>
              IF upd[1].chat_type = "private" /\ TextOf(upd) = StrStart
              THEN MutationsOf(calls) = <<"repo.delete", "repo.save">>
              ELSE Len(MutationsOf(calls)) <= 1

\* A /start arrived while a state was stored: a delete, then a save.
C17_Witness ==
    /\ PrivateRequest(upd, outcome)
    /\ TextOf(upd) = StrStart
    /\ Stored(before, upd[1].chat_id)
    /\ MutationsOf(calls) = <<"repo.delete", "repo.save">>

\* C18: a private message whose text is /cancel, cancel in any letter case
\* or the Persian cancel word, at every step and with nothing stored, gets
\* the acknowledgment and no dispatch, issues a delete and no save, and
\* leaves nothing stored for the conversation.
C18_CancelAlwaysClears ==
    (/\ PrivateRequest(upd, outcome)
     /\ \/ TextOf(upd) \in {StrSlashCancel, StrLaghv}
        \/ toLowerCase(TextOf(upd)) = StrCancel) =>
        /\ kv[upd[1].chat_id] = None
        /\ MutationsOf(calls) = <<"repo.delete">>
        /\ MessagesOf(calls) = <<"cancelled">>
        /\ DispatchesOf(calls) = <<>>

\* "CanCel" arrived while a state waited for the title.
C18_Witness ==
    /\ PrivateRequest(upd, outcome)
    /\ TextOf(upd) = <<"C","a","n","C","e","l">>
    /\ Stored(before, upd[1].chat_id)
    /\ FieldsOf(before, upd[1].chat_id).step = "awaiting_title"
    /\ kv[upd[1].chat_id] = None

\* The last request was a private message, not /start and not a cancel
\* keyword, that found no state for its conversation.
FoundNoState ==
    /\ PrivateRequest(upd, outcome)
    /\ TextOf(upd) # StrStart
    /\ ~ isCancelText(TextOf(upd))
    /\ ~ Stored(before, upd[1].chat_id)

\* C19: with no stored state, a private message that is not /start or
\* cancel and carries a video creates a state at awaiting_title with the
\* video's reference and no title, description or tags; without a video it
\* gets the prompt to /start first and no state is created.
C19_ImplicitStart ==
    FoundNoState =>
        IF upd[1].video # None
        THEN /\ Stored(kv, upd[1].chat_id)
             /\ FieldsOf(kv, upd[1].chat_id).step = "awaiting_title"
             /\ DOMAIN FieldsOf(kv, upd[1].chat_id) \cap FieldNames = {"video_file_id"}
             /\ FieldsOf(kv, upd[1].chat_id).video_file_id = upd[1].video[1]
             /\ MessagesOf(calls) = <<"askTitle">>
        ELSE /\ kv = before
             /\ MutationsOf(calls) = <<>>
             /\ MessagesOf(calls) = <<"startFirst">>

\* A video arrived with nothing stored and opened a state with its
\* reference.
C19_Witness ==
    /\ FoundNoState
    /\ before[upd[1].chat_id] = None
    /\ upd[1].video = Some(V1)
    /\ Stored(kv, upd[1].chat_id)
    /\ FieldsOf(kv, upd[1].chat_id).video_file_id = V1

\* The positions of the calls with operation op.
PositionsOf(cs, op) == {i \in 1..Len(cs) : cs[i].op = op}

\* C20: the calls of one request follow one another in a fixed order.  In
\* the group path the file check is answered before the dispatch and the
\* dispatch before the success or failure text; in the private path the
\* dispatch is answered before the text about it, and a delete comes only
\* after a dispatch answered with success.
C20_CallsInOrder ==
    (outcome = "returned" /\ upd # None) =>
        \A i \in PositionsOf(calls, "n8n.sendVideo") :
            /\ \A m \in PositionsOf(calls, "tg.sendMessage") : m > i
            /\ IF GroupMessage(upd)
               THEN /\ \E f \in PositionsOf(calls, "tg.getFile") :
                          f < i /\ calls[f].res /\ calls[f].arg = calls[i].arg.video
                    /\ \E m \in PositionsOf(calls, "tg.sendMessage") :
                          calls[m].arg = IF calls[i].res THEN "groupDispatched"
                                         ELSE "groupDispatchFailed"
               ELSE /\ \E m \in PositionsOf(calls, "tg.sendMessage") :
                          calls[m].arg = IF calls[i].res THEN "dispatched"
                                         ELSE "dispatchFailed"
                    /\ \A d \in PositionsOf(calls, "repo.delete") :
                          d > i /\ calls[i].res

\* A confirm whose dispatch was answered with success: the dispatch, then
\* the text, then the delete.
C20_Witness ==
    /\ ConfirmRequest(upd, outcome)
    /\ \E i \in PositionsOf(calls, "n8n.sendVideo") :
          /\ calls[i].res
          /\ i + 2 = Len(calls)
          /\ calls[i + 1].op = "tg.sendMessage"
          /\ calls[i + 2].op = "repo.delete"

(***************************************************************************)
(* Properties of concurrent requests                                       *)
(***************************************************************************)
\* The positions in the trace of the completed writes to conversation c.
WritesTo(c) ==
    {i \in 1..Len(trace) : IsMutation(trace[i].call) /\ trace[i].call.chat = c}

\* The position of the write to conversation c that completed last.
LastWriteTo(c) == CHOOSE i \in WritesTo(c) : \A j \in WritesTo(c) : j <= i

\* The request r has no write to conversation c left to issue.
WritesDone(r, c) ==
    \A k \in (r.done + 1)..Len(r.plan) : ~ (IsMutation(r.plan[k]) /\ r.plan[k].chat = c)

\* The store the request r leaves when no other request runs beside it: the
\* store it found with its own writes applied.
AloneOn(r) == Run(r.found, r.upd, r.e).store

\* The n-th request was a /cancel, "cancel" or the localized word.
IsCancel(n) == isCancelText(TextOf(inflight[n].upd))

\* The n-th request dispatched and the workflow answered with success.
Delivered(n) ==
    \E i \in 1..Len(trace) :
        trace[i].n = n /\ IsSendVideo(trace[i].call) /\ trace[i].call.res

\* Request p read the state of conversation c at position i of the trace,
\* request q deleted it at position j, and p saved its copy at position k.
StaleSave(c, p, q, i, j, k) ==
    /\ p # q /\ i < j /\ j < k
    /\ trace[i].n = p /\ trace[i].call = CallGet(c)
    /\ trace[j].n = q /\ trace[j].call = CallDelete(c)
    /\ trace[k].n = p /\ trace[k].call.op = "repo.save" /\ trace[k].call.chat = c

Deliveries ==
    {i \in 1..Len(trace) : IsSendVideo(trace[i].call) /\ trace[i].call.res}

\* The n-th request issues a dispatch.
Dispatches(n) == UsesOp(inflight[n].plan, "n8n.sendVideo")

\* At position i of the trace a request read the state of conversation c
\* after another request had deleted it at position j, and no write to c
\* completed in between.
ReadsAfterDelete(c, j, i) ==
    /\ j < i
    /\ trace[j].call = CallDelete(c)
    /\ trace[i].call = CallGet(c)
    /\ trace[i].n # trace[j].n
    /\ \A k \in (j + 1)..(i - 1) : ~ (IsMutation(trace[k].call) /\ trace[k].call.chat = c)

IsSet(s, f) == s[f] # None /\ s[f][1] # <<>>

\* The step-to-fields invariant for a state s in memory.
StepFields(s) ==
    CASE s.step = "awaiting_video" -> \A f \in OptionalKeys : s[f] = None
      [] s.step = "awaiting_title" -> IsSet(s, "video_file_id")
      [] s.step = "awaiting_description" ->
            /\ IsSet(s, "video_file_id")
            /\ IsSet(s, "title") /\ Len(s.title[1]) <= TitleCap
      [] s.step = "awaiting_tags" ->
            /\ IsSet(s, "video_file_id")
            /\ IsSet(s, "title") /\ Len(s.title[1]) <= TitleCap
            /\ IsSet(s, "description") /\ Len(s.description[1]) <= DescriptionCap
      [] s.step = "awaiting_confirm" ->
            /\ IsSet(s, "video_file_id")
            /\ IsSet(s, "title") /\ Len(s.title[1]) <= TitleCap
            /\ IsSet(s, "description") /\ Len(s.description[1]) <= DescriptionCap
            /\ IsSet(s, "tags") /\ Len(s.tags[1]) <= TagsCap
            /\ \A i \in 1..Len(s.tags[1]) : s.tags[1][i] # <<>>
      [] OTHER -> FALSE

\* The states the calls cs saved.
SavedBy(cs) == {cs[i].arg : i \in {j \in 1..Len(cs) : cs[j].op = "repo.save"}}

\* C23: every state the processor writes, in any sequence of private
\* messages handled one after the other from an empty store, satisfies the
\* step-to-fields invariant: no field at awaiting_video; a non-empty video
\* reference from awaiting_title on; a non-empty title of at most 100
\* characters from awaiting_description on; a non-empty description of at
\* most 5000 characters from awaiting_tags on; 1 to 30 non-empty tags at
\* awaiting_confirm.  So no confirm ends in the incomplete-fields branch.
C23_WrittenStatesAreWellFormed ==
    /\ \A s \in SavedBy(calls) : StepFields(s)
    /\ \A i \in 1..Len(calls) : calls[i] # CallSendMessage(calls[i].chat, "incomplete")

\* The workflow accepted a dispatch of the last request, a private message.
AcceptedDispatch ==
    /\ upd # None
    /\ upd[1].chat_type = "private"
    /\ PayloadsAnswered(calls, TRUE) # {}

\* The last request ended at a repo.delete that threw: every call before
\* the delete of the success branch returned.
DeleteThrew ==
    /\ outcome = "threw"
    /\ calls # <<>>
    /\ calls[Len(calls)] = CallSendMessage(upd[1].chat_id, "dispatched")

\* C24: once the workflow has accepted the dispatch of a private confirm,
\* the state of the conversation is gone when the handling of that update
\* ends, also when the text that reports the success could not be sent
\* because the call threw; the only way the state can stay is that the
\* delete itself fails.
C24_AcceptedConfirmLeavesNoState ==
    (AcceptedDispatch /\ ~ DeleteThrew) => kv[upd[1].chat_id] = None

====
